---------------------------- MODULE Spec2Model ----------------------------
(***************************************************************************)
(* Trading decision and position management engine of trading-backend.     *)
(*                                                                         *)
(*   src/src/tradingEngine/PaperExecutioner.ts  ledger, monitor, buy/sell  *)
(*   src/src/services/aiService.ts              rule engine and arbiter    *)
(*   src/src/server.ts (and src/unnamed/part_000)  tradingLoop, status API *)
(*                                                                         *)
(* Numbers.  The program computes in IEEE doubles; the model computes in   *)
(* fixed point with four decimals (FX = 10000): 1.0 SOL is 10000, a price  *)
(* of 0.1000 is 1000, a fraction such as 0.20 is 2000.  Percent values     *)
(* (pnlPercentage, TAKE_PROFIT, ...) are kept in hundredths of a percent,   *)
(* so that fraction * FX and percent * 100 are the same integer.  Every    *)
(* quotient is rounded down.                                               *)
(*                                                                         *)
(* Time.  Date.now() and the map lastTradeTime are read by the program     *)
(* only in the difference Date.now() - lastTradeTime[token], compared with *)
(* TRADE_COOLDOWN_MS.  The model keeps that difference, sinceLastTrade,    *)
(* cut off at TRADE_COOLDOWN_MS (a token never traded has lastTrade 0,     *)
(* which is the cut-off value too).                                        *)
(***************************************************************************)
EXTENDS Integers, Sequences, FiniteSets, Bags, TLC

(***************************************************************************)
(* Bounds of the model.                                                    *)
(***************************************************************************)
\* Number of tradingLoop invocations that may be in flight at once.
MaxInFlight == 2
\* Accepted trades the ledger is followed for, in a calm market.
MaxTrades == 2
\* Accepted trades the ledger is followed for, in a wild market.
MaxLadder == 5
\* Milliseconds by which one step of the clock advances Date.now().
ClockStep == 30000

(***************************************************************************)
(* Fixed point.                                                            *)
(***************************************************************************)
FX == 100 * 100

\* a * b for two fixed-point numbers
Mul(a, b) == (a * b) \div FX

\* a / b for two fixed-point numbers
Div(a, b) == (a * FX) \div b

Min(a, b) == IF a < b THEN a ELSE b

Max(a, b) == IF a > b THEN a ELSE b

\* What arithmetic on an undefined operand yields in the program.  Every
\* comparison with it is false and every result computed from it is NaN.
NaN == 0 - 999999999

(***************************************************************************)
(* Configuration: src/src/types/index.ts and TRADING_CONFIG.               *)
(***************************************************************************)
\* WATCHLIST, cut to its first two symbols, in feed order
WATCHLIST == <<"SOL", "JUP">>

Tokens == {WATCHLIST[i] : i \in 1..Len(WATCHLIST)}

INITIAL_BALANCE == 100000
FEE_PERCENTAGE == 10

MIN_CASH_RESERVE == 2000
MAX_POSITION_PERCENT == 3000
BUY_PERCENT == 1500
MIN_TRADE_AMOUNT == 500
TRADE_COOLDOWN_MS == 60000
DCA_ZONES == <<-200, -500, -1000>>
DCA_MULTIPLIERS == <<10000, 15000, 20000>>
TRAILING_STOP_ACTIVATION == 150
TRAILING_STOP_CALLBACK == 50
HARD_STOP_LOSS == -1500
\* the literal 0.8 of buy(): share of the available cash a capped DCA uses
DCA_CASH_CAP == 8000

(***************************************************************************)
(* PaperExecutioner.  A ledger L is the record of the object's fields:     *)
(*   cash     cashBalance                                                  *)
(*   pos      positions, a function from the tokens held to Position       *)
(*   trades   trades, newest first                                         *)
(*   counter  tradeCounter                                                 *)
(*   since    Date.now() - lastTradeTime[token], cut at the cooldown       *)
(***************************************************************************)
HasPosition(L, token) == token \in DOMAIN L.pos

\* Map.set / Map.delete on the position map
SetPos(L, token, p) ==
    [L EXCEPT !.pos = [t \in (DOMAIN L.pos) \cup {token} |->
                          IF t = token THEN p ELSE L.pos[t]]]

DelPos(L, token) ==
    [L EXCEPT !.pos = [t \in (DOMAIN L.pos) \ {token} |-> L.pos[t]]]

RECURSIVE SumValues(_, _)
SumValues(pos, S) ==
    IF S = {} THEN 0
    ELSE LET t == CHOOSE x \in S : TRUE
         IN Mul(pos[t].amount, pos[t].currentPrice) + SumValues(pos, S \ {t})

\* getTotalEquity
GetTotalEquity(L) == L.cash + SumValues(L.pos, DOMAIN L.pos)

\* updatePrices(token, currentPrice)
UpdatePrices(L, token, currentPrice) ==
    IF ~HasPosition(L, token) THEN L
    ELSE LET p == L.pos[token]
             currentValue == Mul(p.amount, currentPrice)
             costBasis == p.totalCost
             pnl == currentValue - costBasis
         IN SetPos(L, token,
                   [p EXCEPT !.currentPrice = currentPrice,
                             !.pnl = pnl,
                             !.pnlPercentage = (pnl * FX) \div costBasis])

\* marketData.forEach(d => exec.updatePrices(d.token, d.price))
RECURSIVE UpdateAllPrices(_, _, _)
UpdateAllPrices(L, md, i) ==
    IF i > Len(md) THEN L
    ELSE UpdateAllPrices(UpdatePrices(L, md[i].token, md[i].price), md, i + 1)

\* Faulty variant of updateTrailingHighs: the comparison with the stored peak
\* is left out, so the peak follows the price down.
RECURSIVE UpdateTrailingHighsAlways(_, _, _)
UpdateTrailingHighsAlways(L, md, i) ==
    IF i > Len(md) THEN L
    ELSE LET d == md[i]
             L1 == IF HasPosition(L, d.token)
                   THEN SetPos(L, d.token,
                               [L.pos[d.token] EXCEPT !.highestPrice = d.price])
                   ELSE L
         IN UpdateTrailingHighsAlways(L1, md, i + 1)

\* updateTrailingHighs(marketData)
RECURSIVE UpdateTrailingHighs(_, _, _)
UpdateTrailingHighs(L, md, i) ==
    IF i > Len(md) THEN L
    ELSE LET d == md[i]
             L1 == IF HasPosition(L, d.token) /\ d.price > L.pos[d.token].highestPrice
                   THEN SetPos(L, d.token,
                               [L.pos[d.token] EXCEPT !.highestPrice = d.price])
                   ELSE L
         IN UpdateTrailingHighs(L1, md, i + 1)


(***************************************************************************)
(* monitorPositions.  The result is the ledger with the peaks it raised,   *)
(* the action it returns (NoSignal for null) and, for the properties, the  *)
(* list of the positions the loop evaluated before it returned, each with  *)
(* the values it read and the action it produced for that position.        *)
(***************************************************************************)
NoSignal == [token |-> "none", action |-> "HOLD", confidence |-> 0, reason |-> "none"]

\* position.pnlPercentage > TRAILING_STOP_ACTIVATION * 100
ProfitActivated(p) == p.pnlPercentage > TRAILING_STOP_ACTIVATION

\* dropFromPeak < -TRAILING_STOP_CALLBACK, dropFromPeak = (price - highest) / highest
CallbackTriggered(p, currentPrice) ==
    (currentPrice - p.highestPrice) * FX < (0 - TRAILING_STOP_CALLBACK) * p.highestPrice

\* dcaLevel < DCA_ZONES.length and pnlFromInitial <= DCA_ZONES[dcaLevel]
DcaTriggered(p, currentPrice) ==
    /\ p.dcaLevel < Len(DCA_ZONES)
    /\ (currentPrice - p.initialBuyPrice) * FX
          <= DCA_ZONES[p.dcaLevel + 1] * p.initialBuyPrice

\* position.pnlPercentage <= HARD_STOP_LOSS * 100
HardStopTriggered(p) == p.pnlPercentage <= HARD_STOP_LOSS

\* Faulty variant of steps 2 to 4: the hard stop is tested before the DCA zone.
MonitorTriggerStopFirst(p, currentPrice) ==
    IF ProfitActivated(p) /\ CallbackTriggered(p, currentPrice) THEN "trailing"
    ELSE IF HardStopTriggered(p) THEN "hardstop"
    ELSE IF DcaTriggered(p, currentPrice) THEN "dca"
    ELSE "none"

\* Faulty variant of step 2: the drop from the peak is enough for the trailing
\* stop, whatever the profit.
MonitorTriggerOnCallback(p, currentPrice) ==
    IF CallbackTriggered(p, currentPrice) THEN "trailing"
    ELSE IF DcaTriggered(p, currentPrice) THEN "dca"
    ELSE IF HardStopTriggered(p) THEN "hardstop"
    ELSE "none"

\* Steps 2 to 4 of the loop body, in the order of the code
MonitorTrigger(p, currentPrice) ==
    IF ProfitActivated(p) /\ CallbackTriggered(p, currentPrice) THEN "trailing"
    ELSE IF DcaTriggered(p, currentPrice) THEN "dca"
    ELSE IF HardStopTriggered(p) THEN "hardstop"
    ELSE "none"

MonitorAction(trigger) ==
    IF trigger = "none" THEN "NONE" ELSE IF trigger = "dca" THEN "BUY" ELSE "SELL"

RECURSIVE MonitorFrom(_, _, _, _)
MonitorFrom(L, md, i, evals) ==
    IF i > Len(md) THEN [led |-> L, sig |-> NoSignal, evals |-> evals]
    ELSE LET d == md[i] IN
         IF ~HasPosition(L, d.token) THEN MonitorFrom(L, md, i + 1, evals)
         ELSE LET p0 == L.pos[d.token]
                  \* step 1: peak tracking
                  p == IF d.price > p0.highestPrice
                       THEN [p0 EXCEPT !.highestPrice = d.price] ELSE p0
                  L1 == SetPos(L, d.token, p)
                  trigger == MonitorTrigger(p, d.price)
                  ev == [token |-> d.token, price |-> d.price,
                         action |-> MonitorAction(trigger), trigger |-> trigger,
                         before |-> p0, after |-> p]
              IN IF trigger = "none"
                 THEN MonitorFrom(L1, md, i + 1, Append(evals, ev))
                 ELSE [led |-> L1,
                       sig |-> [token |-> d.token, action |-> MonitorAction(trigger),
                                confidence |-> 100, reason |-> trigger],
                       evals |-> Append(evals, ev)]

\* Faulty variant of monitorPositions: the scan leaves out the first symbol of
\* the feed.
MonitorPositionsFromSecond(L, md) == MonitorFrom(L, md, 2, <<>>)

MonitorPositions(L, md) == MonitorFrom(L, md, 1, <<>>)

(***************************************************************************)
(* buy, sell, executeTrade.                                                *)
(***************************************************************************)
\* Trade record; the timestamp is left to sinceLastTrade
Trade(L, token, action, amount, price, fee, total) ==
    [id |-> L.counter + 1, token |-> token, action |-> action,
     amount |-> amount, price |-> price, fee |-> fee, total |-> total]

\* Faulty variant of the bookkeeping: the trade is pushed at the end of the log.
RecordAtTail(L, trade) ==
    [L EXCEPT !.since = [t \in DOMAIN L.since |->
                            IF t = trade.token THEN 0 ELSE L.since[t]],
              !.counter = L.counter + 1,
              !.trades = Append(L.trades, trade)]

\* lastTradeTime.set(token, Date.now()); id T<++tradeCounter>; trades.unshift
Record(L, trade) ==
    [L EXCEPT !.since = [t \in DOMAIN L.since |->
                            IF t = trade.token THEN 0 ELSE L.since[t]],
              !.counter = L.counter + 1,
              !.trades = <<trade>> \o L.trades]

\* Faulty variant of the opening buy: the fee is not taken off the amount that
\* buys tokens.
InitialBuyGross(L, token, price, totalEquity, availableCash) ==
    LET investmentAmount == Min(Mul(availableCash, BUY_PERCENT),
                                Mul(totalEquity, MAX_POSITION_PERCENT))
        fee == Mul(investmentAmount, FEE_PERCENTAGE)
        tokenAmount == Div(investmentAmount, price)
        L1 == [L EXCEPT !.cash = L.cash - investmentAmount]
        L2 == SetPos(L1, token,
                     [amount |-> tokenAmount, avgBuyPrice |-> price,
                      currentPrice |-> price, pnl |-> 0, pnlPercentage |-> 0,
                      dcaLevel |-> 0, initialBuyPrice |-> price,
                      highestPrice |-> price, totalCost |-> investmentAmount])
    IN IF investmentAmount < MIN_TRADE_AMOUNT THEN L
       ELSE Record(L2, Trade(L, token, "BUY", tokenAmount, price, fee, investmentAmount))

\* buy() on a token without a position
InitialBuy(L, token, price, totalEquity, availableCash) ==
    LET investmentAmount == Min(Mul(availableCash, BUY_PERCENT),
                                Mul(totalEquity, MAX_POSITION_PERCENT))
        fee == Mul(investmentAmount, FEE_PERCENTAGE)
        netAmount == investmentAmount - fee
        tokenAmount == Div(netAmount, price)
        L1 == [L EXCEPT !.cash = L.cash - investmentAmount]
        L2 == SetPos(L1, token,
                     [amount |-> tokenAmount, avgBuyPrice |-> price,
                      currentPrice |-> price, pnl |-> 0, pnlPercentage |-> 0,
                      dcaLevel |-> 0, initialBuyPrice |-> price,
                      highestPrice |-> price, totalCost |-> netAmount])
    IN IF investmentAmount < MIN_TRADE_AMOUNT THEN L
       ELSE Record(L2, Trade(L, token, "BUY", tokenAmount, price, fee, investmentAmount))

\* Faulty variant of the DCA entry: the entry price and the peak are taken
\* from the new buy, as for a first entry.
DcaBuyRebased(L, token, price, totalEquity, availableCash) ==
    LET p == L.pos[token]
        dcaMultiplier == DCA_MULTIPLIERS[p.dcaLevel + 1]
        estimatedOriginalSize == p.totalCost \div (p.dcaLevel + 1)
        wanted == Mul(estimatedOriginalSize, dcaMultiplier)
        investmentAmount == IF wanted > availableCash
                            THEN Mul(availableCash, DCA_CASH_CAP) ELSE wanted
        positionValue == Mul(p.amount, price)
        newPositionValue == positionValue + investmentAmount
        fee == Mul(investmentAmount, FEE_PERCENTAGE)
        netAmount == investmentAmount - fee
        tokenAmount == Div(netAmount, price)
        amount == p.amount + tokenAmount
        totalCost == p.totalCost + netAmount
        L1 == [L EXCEPT !.cash = L.cash - investmentAmount]
        L2 == SetPos(L1, token,
                     [p EXCEPT !.amount = amount, !.totalCost = totalCost,
                               !.avgBuyPrice = Div(totalCost, amount),
                               !.currentPrice = price,
                               !.dcaLevel = p.dcaLevel + 1,
                               !.initialBuyPrice = price,
                               !.highestPrice = price])
    IN \* newPositionPercent > MAX_POSITION_PERCENT * 2
       IF newPositionValue * FX > (MAX_POSITION_PERCENT * 2) * totalEquity THEN L
       ELSE IF investmentAmount < MIN_TRADE_AMOUNT THEN L
       ELSE Record(L2, Trade(L, token, "BUY", tokenAmount, price, fee, investmentAmount))

\* Faulty variant of the DCA entry: the multiplier is applied to the whole
\* cost of the position, not to the size of its first entry.
DcaBuyOnTotal(L, token, price, totalEquity, availableCash) ==
    LET p == L.pos[token]
        dcaMultiplier == DCA_MULTIPLIERS[p.dcaLevel + 1]
        estimatedOriginalSize == p.totalCost
        wanted == Mul(estimatedOriginalSize, dcaMultiplier)
        investmentAmount == IF wanted > availableCash
                            THEN Mul(availableCash, DCA_CASH_CAP) ELSE wanted
        positionValue == Mul(p.amount, price)
        newPositionValue == positionValue + investmentAmount
        fee == Mul(investmentAmount, FEE_PERCENTAGE)
        netAmount == investmentAmount - fee
        tokenAmount == Div(netAmount, price)
        amount == p.amount + tokenAmount
        totalCost == p.totalCost + netAmount
        L1 == [L EXCEPT !.cash = L.cash - investmentAmount]
        L2 == SetPos(L1, token,
                     [p EXCEPT !.amount = amount, !.totalCost = totalCost,
                               !.avgBuyPrice = Div(totalCost, amount),
                               !.currentPrice = price,
                               !.dcaLevel = p.dcaLevel + 1])
    IN \* newPositionPercent > MAX_POSITION_PERCENT * 2
       IF newPositionValue * FX > (MAX_POSITION_PERCENT * 2) * totalEquity THEN L
       ELSE IF investmentAmount < MIN_TRADE_AMOUNT THEN L
       ELSE Record(L2, Trade(L, token, "BUY", tokenAmount, price, fee, investmentAmount))

\* buy() on an existing position whose dcaLevel indexes DCA_MULTIPLIERS
DcaBuy(L, token, price, totalEquity, availableCash) ==
    LET p == L.pos[token]
        dcaMultiplier == DCA_MULTIPLIERS[p.dcaLevel + 1]
        estimatedOriginalSize == p.totalCost \div (p.dcaLevel + 1)
        wanted == Mul(estimatedOriginalSize, dcaMultiplier)
        investmentAmount == IF wanted > availableCash
                            THEN Mul(availableCash, DCA_CASH_CAP) ELSE wanted
        positionValue == Mul(p.amount, price)
        newPositionValue == positionValue + investmentAmount
        fee == Mul(investmentAmount, FEE_PERCENTAGE)
        netAmount == investmentAmount - fee
        tokenAmount == Div(netAmount, price)
        amount == p.amount + tokenAmount
        totalCost == p.totalCost + netAmount
        L1 == [L EXCEPT !.cash = L.cash - investmentAmount]
        L2 == SetPos(L1, token,
                     [p EXCEPT !.amount = amount, !.totalCost = totalCost,
                               !.avgBuyPrice = Div(totalCost, amount),
                               !.currentPrice = price,
                               !.dcaLevel = p.dcaLevel + 1])
    IN \* newPositionPercent > MAX_POSITION_PERCENT * 2
       IF newPositionValue * FX > (MAX_POSITION_PERCENT * 2) * totalEquity THEN L
       ELSE IF investmentAmount < MIN_TRADE_AMOUNT THEN L
       ELSE Record(L2, Trade(L, token, "BUY", tokenAmount, price, fee, investmentAmount))

\* buy() on an existing position with dcaLevel = DCA_MULTIPLIERS.length: the
\* multiplier is undefined, investmentAmount is NaN, no guard compares true
\* with NaN, and the trade is booked with NaN amounts.
NanBuy(L, token, price) ==
    LET p == L.pos[token]
        L1 == [L EXCEPT !.cash = NaN]
        L2 == SetPos(L1, token,
                     [p EXCEPT !.amount = NaN, !.totalCost = NaN,
                               !.avgBuyPrice = NaN, !.currentPrice = price,
                               !.dcaLevel = p.dcaLevel + 1])
    IN Record(L2, Trade(L, token, "BUY", NaN, price, NaN, NaN))

Buy(L, token, price) ==
    LET totalEquity == GetTotalEquity(L)
        availableCash == L.cash - Mul(totalEquity, MIN_CASH_RESERVE)
    IN IF availableCash < MIN_TRADE_AMOUNT THEN L
       ELSE IF ~HasPosition(L, token)
            THEN InitialBuy(L, token, price, totalEquity, availableCash)
       ELSE IF L.pos[token].dcaLevel < Len(DCA_MULTIPLIERS)
            THEN DcaBuy(L, token, price, totalEquity, availableCash)
       ELSE NanBuy(L, token, price)

\* Faulty variant of sell: the position is sold and stays in the map.
SellKeepsPosition(L, token, price) ==
    IF ~HasPosition(L, token) THEN L
    ELSE LET p == L.pos[token]
             amount == p.amount
             saleValue == Mul(amount, price)
             fee == Mul(saleValue, FEE_PERCENTAGE)
             netProceeds == saleValue - fee
             L1 == [L EXCEPT !.cash = L.cash + netProceeds]
         IN IF amount <= 0 THEN L
            ELSE Record(L1, Trade(L, token, "SELL", amount, price, fee, netProceeds))

\* sell()
Sell(L, token, price) ==
    IF ~HasPosition(L, token) THEN L
    ELSE LET p == L.pos[token]
             amount == p.amount
             saleValue == Mul(amount, price)
             fee == Mul(saleValue, FEE_PERCENTAGE)
             netProceeds == saleValue - fee
             L1 == [L EXCEPT !.cash = L.cash + netProceeds]
             L2 == Record(L1, Trade(L, token, "SELL", amount, price, fee, netProceeds))
         IN IF amount <= 0 THEN L ELSE DelPos(L2, token)

\* Faulty variant of the cooldown test: it never rejects.
CooldownNever(L, token) == FALSE

\* Date.now() - (lastTradeTime.get(token) || 0) < TRADE_COOLDOWN_MS
CooldownActive(L, token) ==
    token \in DOMAIN L.since /\ L.since[token] < TRADE_COOLDOWN_MS

\* Faulty variant of executeTrade: lastTradeTime is set when the call passes
\* the cooldown test, before the trade is known to be accepted.
ExecuteTradeStamped(L, signal, currentPrice) ==
    LET L1 == [L EXCEPT !.since = [t \in DOMAIN L.since |->
                                      IF t = signal.token THEN 0 ELSE L.since[t]]]
    IN IF CooldownActive(L, signal.token) THEN L
       ELSE IF signal.action = "BUY" THEN Buy(L1, signal.token, currentPrice)
       ELSE IF signal.action = "SELL" THEN Sell(L1, signal.token, currentPrice)
       ELSE L1

\* executeTrade(signal, currentPrice)
ExecuteTrade(L, signal, currentPrice) ==
    IF CooldownActive(L, signal.token) THEN L
    ELSE IF signal.action = "BUY" THEN Buy(L, signal.token, currentPrice)
    ELSE IF signal.action = "SELL" THEN Sell(L, signal.token, currentPrice)
    ELSE L


(***************************************************************************)
(* aiService: TRADING_RULES, the rule engine and the arbiter.              *)
(*                                                                         *)
(* An indicator reading that may be null is a record with an isNull flag.  *)
(* RSI is kept as the exact quotient num / den.                            *)
(***************************************************************************)
RSI_OVERSOLD == 30
RSI_OVERBOUGHT == 75
TAKE_PROFIT == 80
STOP_LOSS == -150
MIN_CONFIDENCE == 60
WARMUP_PERIOD == 20

\* the penalties and weights written as literals in generateRuleBasedSignal
PENALTY_RSI == 50
PENALTY_SMA == 15
PENALTY_MACD == 20
PENALTY_HOLD == 40

\* rsi === 0 (null, undefined and NaN are isNull)
RsiIsZero(rsi) == ~rsi.isNull /\ rsi.num = 0

\* rsi > tenths / 10  and  rsi < whole
RsiAboveTenths(rsi, tenths) == ~rsi.isNull /\ rsi.num * 10 > tenths * rsi.den

RsiBelow(rsi, whole) == ~rsi.isNull /\ rsi.num < whole * rsi.den

RsiAbove(rsi, whole) == ~rsi.isNull /\ rsi.num > whole * rsi.den

\* Faulty variant of the penalty: an RSI of exactly 0 is taken as a reading.
NullPenaltyNullOnly(ind) ==
      (IF ind.rsi.isNull THEN PENALTY_RSI ELSE 0)
    + (IF ind.sma20.isNull THEN PENALTY_SMA ELSE 0)
    + (IF ind.macd.isNull THEN PENALTY_MACD ELSE 0)

NullPenalty(ind) ==
      (IF ind.rsi.isNull \/ RsiIsZero(ind.rsi) THEN PENALTY_RSI ELSE 0)
    + (IF ind.sma20.isNull THEN PENALTY_SMA ELSE 0)
    + (IF ind.macd.isNull THEN PENALTY_MACD ELSE 0)

\* the sell rules, evaluated when a position is held
SellStrength(ind, position, newsSentiment) ==
    LET pnl == position.pnlPercentage
        raw ==   (IF pnl >= TAKE_PROFIT THEN 45 ELSE 0)
               + (IF pnl <= STOP_LOSS THEN 55 ELSE 0)
               + (IF RsiAbove(ind.rsi, RSI_OVERBOUGHT) THEN 35 ELSE 0)
               + (IF ind.macdCrossover = "BEARISH" THEN 30 ELSE 0)
               + (IF newsSentiment = "bearish" THEN 20 ELSE 0)
    IN Max(0, raw - NullPenalty(ind))

\* the buy rules, evaluated when no position is held
BuyStrength(data, ind, newsSentiment) ==
    LET raw ==   (IF RsiAboveTenths(ind.rsi, 1) /\ RsiBelow(ind.rsi, RSI_OVERSOLD)
                  THEN 40 ELSE 0)
               + (IF ind.macdCrossover = "BULLISH" THEN 35 ELSE 0)
               + (IF ~ind.sma20.isNull /\ data.price * 100 < ind.sma20.value * 98
                  THEN 20 ELSE 0)
               + (IF data.change24h < -500 THEN 18 ELSE 0)
               + (IF newsSentiment = "bullish" THEN 20 ELSE 0)
               - (IF newsSentiment = "bearish" THEN 35 ELSE 0)
    IN Max(0, raw - NullPenalty(ind))

\* Faulty variant of generateRuleBasedSignal: the strength of a SELL or BUY is
\* not cut at 100.
GenerateRuleBasedSignalUncapped(data, ind, hasPosition, position, newsSentiment) ==
    LET sellStrength == IF hasPosition
                        THEN SellStrength(ind, position, newsSentiment) ELSE 0
        buyStrength == IF ~hasPosition
                       THEN BuyStrength(data, ind, newsSentiment) ELSE 0
    IN IF NullPenalty(ind) >= PENALTY_HOLD
       THEN [token |-> data.token, action |-> "HOLD", strength |-> 0]
       ELSE IF sellStrength > buyStrength /\ sellStrength >= MIN_CONFIDENCE
       THEN [token |-> data.token, action |-> "SELL",
             strength |-> sellStrength]
       ELSE IF buyStrength > sellStrength /\ buyStrength >= MIN_CONFIDENCE
       THEN [token |-> data.token, action |-> "BUY",
             strength |-> buyStrength]
       ELSE [token |-> data.token, action |-> "HOLD",
             strength |-> Max(buyStrength, sellStrength)]

\* generateRuleBasedSignal; hasPosition is position && position.amount > 0
GenerateRuleBasedSignal(data, ind, hasPosition, position, newsSentiment) ==
    LET sellStrength == IF hasPosition
                        THEN SellStrength(ind, position, newsSentiment) ELSE 0
        buyStrength == IF ~hasPosition
                       THEN BuyStrength(data, ind, newsSentiment) ELSE 0
    IN IF NullPenalty(ind) >= PENALTY_HOLD
       THEN [token |-> data.token, action |-> "HOLD", strength |-> 0]
       ELSE IF sellStrength > buyStrength /\ sellStrength >= MIN_CONFIDENCE
       THEN [token |-> data.token, action |-> "SELL",
             strength |-> Min(sellStrength, 100)]
       ELSE IF buyStrength > sellStrength /\ buyStrength >= MIN_CONFIDENCE
       THEN [token |-> data.token, action |-> "BUY",
             strength |-> Min(buyStrength, 100)]
       ELSE [token |-> data.token, action |-> "HOLD",
             strength |-> Max(buyStrength, sellStrength)]

\* signals.filter(s => s.action !== 'HOLD')
NonHold(signals) == SelectSeq(signals, LAMBDA s : s.action # "HOLD")

\* signals.filter(s => s.action !== 'HOLD' && s.strength >= MIN_CONFIDENCE)
Actionable(signals) ==
    SelectSeq(signals, LAMBDA s : s.action # "HOLD" /\ s.strength >= MIN_CONFIDENCE)

\* signals.sort((a, b) => b.strength - a.strength)[0]: the sort is stable, so
\* the first signal of the greatest strength
BestIndex(signals) ==
    CHOOSE i \in 1..Len(signals) :
        /\ \A j \in 1..Len(signals) : signals[j].strength <= signals[i].strength
        /\ \A j \in 1..(i - 1) : signals[j].strength < signals[i].strength

\* Faulty variant of the fallback: the list is not sorted before [0] is taken.
BestUnsorted(signals) == signals[1]

Best(signals) == signals[BestIndex(signals)]

\* the AISignal built from a rule signal
FromRule(s) ==
    [token |-> s.token, action |-> s.action, confidence |-> s.strength,
     reason |-> "rules"]

\* String.prototype.toUpperCase on the strings an answer may carry
ToUpperCase(str) ==
    CASE str = "sol" -> "SOL"
      [] str = "jup" -> "JUP"
      [] str = "bonk" -> "BONK"
      [] str = "buy" -> "BUY"
      [] str = "sell" -> "SELL"
      [] str = "hold" -> "HOLD"
      [] OTHER -> str

\* The advisory's answer as letAIPickBest sees it.
\*   status   "error" (fetch or response.json() throws), "notok" (!response.ok)
\*            or "ok"
\*   json     what JSON.parse(result.response) gives: "throws", "null" (a
\*            value without properties) or "object"
\*   token, action   the properties of the object: a string, "<undefined>"
\*            when absent, "<number>" when not a string (optional chaining
\*            then calls a toUpperCase that does not exist)
\*   confidence      the number the answer gives as its confidence
Absent == "<undefined>"

NotAString == "<number>"

\* Faulty variant of parseAIResponse: an answer that passes the validation
\* is returned with the confidence it states.
ParseAIResponseTrusting(resp, validSignals) ==
    IF resp.json # "object" THEN NoSignal
    ELSE IF resp.token = NotAString THEN NoSignal
    ELSE LET token == IF resp.token = Absent THEN Absent ELSE ToUpperCase(resp.token)
             matches == SelectSeq(validSignals, LAMBDA s : s.token = token)
         IN IF matches = <<>> THEN NoSignal
            ELSE LET matchingSignal == matches[1]
                     action == IF resp.action = Absent THEN Absent
                               ELSE ToUpperCase(resp.action)
                 IN IF resp.action = NotAString THEN NoSignal
                    ELSE IF action # matchingSignal.action
                    THEN FromRule(matchingSignal)
                    ELSE [token |-> token, action |-> action,
                          confidence |-> resp.confidence,
                          reason |-> "advisory"]

\* Faulty variant of parseAIResponse: the action of the answer is taken as
\* it is, without the comparison with the rule action.
ParseAIResponseUnchecked(resp, validSignals) ==
    IF resp.json # "object" THEN NoSignal
    ELSE IF resp.token = NotAString THEN NoSignal
    ELSE LET token == IF resp.token = Absent THEN Absent ELSE ToUpperCase(resp.token)
             matches == SelectSeq(validSignals, LAMBDA s : s.token = token)
         IN IF matches = <<>> THEN NoSignal
            ELSE IF resp.action = NotAString \/ resp.action = Absent THEN NoSignal
            ELSE [token |-> token, action |-> ToUpperCase(resp.action),
                  confidence |-> matches[1].strength, reason |-> "advisory"]

\* parseAIResponse; NoSignal stands for null
ParseAIResponse(resp, validSignals) ==
    IF resp.json # "object" THEN NoSignal
    ELSE IF resp.token = NotAString THEN NoSignal
    ELSE LET token == IF resp.token = Absent THEN Absent ELSE ToUpperCase(resp.token)
             matches == SelectSeq(validSignals, LAMBDA s : s.token = token)
         IN IF matches = <<>> THEN NoSignal
            ELSE LET matchingSignal == matches[1]
                     action == IF resp.action = Absent THEN Absent
                               ELSE ToUpperCase(resp.action)
                 IN IF resp.action = NotAString THEN NoSignal
                    ELSE IF action # matchingSignal.action
                    THEN FromRule(matchingSignal)
                    ELSE [token |-> token, action |-> action,
                          confidence |-> matchingSignal.strength,
                          reason |-> "advisory"]

\* letAIPickBest once the request has been answered
LetAIPickBest(signals, resp) ==
    IF resp.status # "ok" THEN FromRule(Best(signals))
    ELSE LET parsed == ParseAIResponse(resp, signals)
         IN IF parsed # NoSignal THEN parsed ELSE FromRule(Best(signals))


(***************************************************************************)
(* State.                                                                  *)
(***************************************************************************)
VARIABLES
    \* server.ts
    isTradingActive,    \* BotState.isTradingActive
    inflight,           \* bag of the tradingLoop invocations suspended at an await
    loopVariant,        \* which tradingLoop the process runs: 1 is server.ts
                        \* 156-199, 2 is server.ts 372-469 and part_000 159-283
    \* PaperExecutioner
    cashBalance, positions, trades, tradeCounter,
    sinceLastTrade,     \* Date.now() - lastTradeTime[token], cut at the cooldown
    \* AIService
    historyLen,         \* length of every priceHistory list, cut at WARMUP_PERIOD
    ollama,             \* "pending" until checkOllamaConnection settles, then
                        \* "up" (isOllamaAvailable) or "down"
    \* the environment
    market,             \* what the price feed does during the run: "calm",
                        \* "wild", or "ladder" when the monitor runs alone
    \* units taken alone
    monitored,          \* positions the last monitor pass evaluated
    arbSignals,         \* candidates handed to letAIPickBest
    arbResp,            \* the advisory's answer to them
    arbResult,          \* what letAIPickBest returned
    roundTrip,          \* a buy and the sell that follows it, in exact arithmetic
    called,             \* the last executeTrade call made on the ledger alone
    server,             \* tradingMode, liveExecutioner and the requests served
    store,              \* data/store.json
    indicators,         \* a price history and what calculateRSI and
                        \* calculateMACD returned for it
    previousMacdHistogram,  \* AIService: per symbol, the histogram stored by the
                        \* last calculateIndicators that had one
    technical,          \* the last calculateIndicators call and its crossover
    ruled,              \* the last generateRuleBasedSignal call and its signal
    \* history variables, read by the properties only
    peakSeen            \* per token: highest price delivered since its position opened

ledgerVars == <<cashBalance, positions, trades, tradeCounter, sinceLastTrade>>

unitVars == <<monitored, arbSignals, arbResp, arbResult, roundTrip, called, server,
             store, indicators, previousMacdHistogram, technical, ruled>>

engineVars == <<isTradingActive, inflight, loopVariant, historyLen, ollama>>

vars == <<isTradingActive, inflight, loopVariant, cashBalance, positions, trades,
          tradeCounter, sinceLastTrade, historyLen, ollama, market, monitored,
          arbSignals, arbResp, arbResult, roundTrip, called, server,
          store, indicators, previousMacdHistogram, technical, ruled, peakSeen>>

Ledger ==
    [cash |-> cashBalance, pos |-> positions, trades |-> trades,
     counter |-> tradeCounter, since |-> sinceLastTrade]

SetLedger(L) ==
    /\ cashBalance' = L.cash
    /\ positions' = L.pos
    /\ trades' = L.trades
    /\ tradeCounter' = L.counter
    /\ sinceLastTrade' = L.since

isOllamaAvailable == ollama = "up"

(***************************************************************************)
(* What the collaborators may deliver.                                     *)
(***************************************************************************)
\* prices fetchAllPrices may return for a symbol: within a tenth of the
\* entry price in a calm market, down to a third of it in a wild one; in a
\* rally, SOL entered at 2.5 goes to +2% and +6% and comes back; in a slide
\* JUP falls through its DCA zones while SOL dips into its first
PricesOf(token) ==
    IF market = "rally"
    THEN (IF token = "SOL" THEN {24000, 25000, 25347, 25500, 26500} ELSE {1000, 1040})
    ELSE IF market = "calm"
    THEN (IF token = "SOL" THEN {900, 1000} ELSE {1000, 1040})
    ELSE IF market = "wild"
    THEN (IF token = "SOL" THEN {300, 900, 1000} ELSE {1000})
    ELSE IF market = "slide"
    THEN (IF token = "SOL" THEN {960, 1000} ELSE {600, 900, 970, 1000})
    ELSE (IF token = "SOL" THEN {300, 840, 900, 960, 1000, 1030, 1040}
          ELSE {1000, 1040})

\* results of fetchAllPrices(WATCHLIST): one entry per symbol, in order
Feed ==
    {[i \in 1..Len(WATCHLIST) |->
         [token |-> WATCHLIST[i], price |-> f[WATCHLIST[i]], change24h |-> 0]] :
       f \in {g \in [Tokens -> UNION {PricesOf(t) : t \in Tokens}] :
                 \A t \in Tokens : g[t] \in PricesOf(t)}}

\* marketData.find(d => d.token === token)?.price || 0
PriceOf(md, token) ==
    LET hits == SelectSeq(md, LAMBDA d : d.token = token)
    IN IF hits = <<>> THEN 0 ELSE hits[1].price

\* Readings calculateIndicators and the sentiment cache may hold for a symbol
\* once its history is long enough: an oversold dip with a bullish crossover,
\* an overbought top with a bearish crossover, a flat market.
Dip ==
    [rsi |-> [isNull |-> FALSE, num |-> 25, den |-> 1],
     sma20 |-> [isNull |-> FALSE, value |-> 1000],
     macd |-> [isNull |-> FALSE, value |-> 1],
     macdCrossover |-> "BULLISH", news |-> "neutral"]

Top ==
    [rsi |-> [isNull |-> FALSE, num |-> 80, den |-> 1],
     sma20 |-> [isNull |-> FALSE, value |-> 1000],
     macd |-> [isNull |-> FALSE, value |-> -1],
     macdCrossover |-> "BEARISH", news |-> "neutral"]

Flat ==
    [rsi |-> [isNull |-> FALSE, num |-> 50, den |-> 1],
     sma20 |-> [isNull |-> FALSE, value |-> 300],
     macd |-> [isNull |-> FALSE, value |-> 0],
     macdCrossover |-> "NONE", news |-> "neutral"]

\* a calm market shows dips and tops, a wild one dips and flats
IndicatorCases == IF market = "calm" THEN {Dip, Top} ELSE {Dip, Flat}

\* answers of the advisory the engine draws from: a failure, or an object
\* naming a symbol
EngineResponses ==
    {[status |-> "error", json |-> "throws", token |-> Absent, action |-> Absent,
      confidence |-> 0]}
    \cup {[status |-> "ok", json |-> "object", token |-> t, action |-> Absent,
           confidence |-> 0] :
             t \in Tokens}

(***************************************************************************)
(* analyzeAndDecide, step 1: the rule signal of every symbol, kept when it *)
(* is not a HOLD of strength 0.                                            *)
(***************************************************************************)
NoPosition ==
    [amount |-> 0, avgBuyPrice |-> 0, currentPrice |-> 0, pnl |-> 0,
     pnlPercentage |-> 0, dcaLevel |-> 0, initialBuyPrice |-> 0,
     highestPrice |-> 0, totalCost |-> 0]

RECURSIVE RuleSignals(_, _, _, _)
RuleSignals(md, ic, pos, i) ==
    IF i > Len(md) THEN <<>>
    ELSE LET d == md[i]
             held == d.token \in DOMAIN pos
             position == IF held THEN pos[d.token] ELSE NoPosition
             signal == GenerateRuleBasedSignal(d, ic[d.token],
                                               held /\ position.amount > 0,
                                               position, ic[d.token].news)
             rest == RuleSignals(md, ic, pos, i + 1)
         IN IF signal.action # "HOLD" \/ signal.strength > 0
            THEN <<signal>> \o rest ELSE rest

\* analyzeAndDecide, steps 2 and 3 without the advisory: the strongest
\* actionable signal, or null
DirectDecision(signals) ==
    IF Actionable(signals) # <<>> THEN FromRule(Best(Actionable(signals)))
    ELSE NoSignal

\* does analyzeAndDecide hand the signals to letAIPickBest
ArbiterInvoked(signals, available) == Len(NonHold(signals)) > 1 /\ available

(***************************************************************************)
(* tradingLoop.  One invocation runs in three stretches, cut at its awaits: *)
(*   TimerFires        entry up to  await fetchAllPrices                    *)
(*   FetchReturns      price update, monitor, its trade, analyzeAndDecide   *)
(*                     up to  await fetch  in letAIPickBest, or to the end  *)
(*   AdvisoryReturns   the arbiter's answer and the trade it leads to       *)
(* An invocation between two stretches is an element of inflight.          *)
(***************************************************************************)
AtFetch == [pc |-> "fetch", md |-> <<>>, signals |-> <<>>]

InFlight == BagCardinality(inflight)

\* The model follows the ledger up to Budget accepted trades and up to the
\* first NaN it books.
Budget == IF market = "calm" THEN MaxTrades ELSE MaxLadder

Followed(L) == L.counter <= Budget

Sound == cashBalance # NaN /\ tradeCounter < Budget

\* peakSeen after a stretch that delivered md (<<>> when it delivered nothing)
\* and left the position map as posAfter
PeakAfter(md, posAfter) ==
    [t \in Tokens |->
        IF t \notin DOMAIN posAfter THEN 0
        ELSE IF t \notin DOMAIN positions THEN 0
        ELSE Max(peakSeen[t], PriceOf(md, t))]

\* setInterval(tradingLoop, SCAN_INTERVAL): nothing keeps an invocation from
\* starting while another one is suspended
TimerFires ==
    /\ isTradingActive
    /\ Sound
    /\ InFlight < MaxInFlight
    /\ inflight' = inflight (+) SetToBag({AtFetch})
    /\ UNCHANGED <<isTradingActive, loopVariant, ledgerVars, historyLen, ollama,
                   market, unitVars, peakSeen>>

\* tradingLoop from the return of fetchAllPrices to the call of
\* analyzeAndDecide: updatePrices, updateTrailingHighs (not in variant 1),
\* monitorPositions and the trade it asks for
MonitorPass(L, md, variant) ==
    LET L1 == UpdateAllPrices(L, md, 1)
        L2 == IF variant = 2 THEN UpdateTrailingHighs(L1, md, 1) ELSE L1
        mon == MonitorPositions(L2, md)
    IN [led |-> IF mon.sig # NoSignal
                THEN ExecuteTrade(mon.led, mon.sig, PriceOf(md, mon.sig.token))
                ELSE mon.led,
        sig |-> mon.sig,
        evals |-> mon.evals]

\* analyzeAndDecide past the warmup check, up to  await fetch  in
\* letAIPickBest (suspend) or to its return and the trade that follows
DecidePass(L, md, ic, available) ==
    LET signals == RuleSignals(md, ic, L.pos, 1)
        suspend == ArbiterInvoked(signals, available)
        signal == DirectDecision(signals)
    IN [led |-> IF suspend THEN L
                ELSE ExecuteTrade(L, signal, PriceOf(md, signal.token)),
        suspend |-> suspend,
        signals |-> signals]

\* the stretch from the return of fetchAllPrices; the readings ic are drawn
\* once the histories are long enough for analyzeAndDecide to look at them
FetchReturns(md) ==
    /\ Sound
    /\ BagIn(AtFetch, inflight)
    /\ historyLen' = Min(historyLen + 1, WARMUP_PERIOD)
    /\ \E m \in {MonitorPass(Ledger, md, loopVariant)} :
         IF historyLen + 1 < WARMUP_PERIOD
         THEN /\ Followed(m.led)
              /\ SetLedger(m.led)
              /\ inflight' = inflight (-) SetToBag({AtFetch})
              /\ peakSeen' = PeakAfter(md, m.led.pos)
         ELSE \E ic \in [Tokens -> IndicatorCases] :
                \E d \in {DecidePass(m.led, md, ic, isOllamaAvailable)} :
                   /\ Followed(d.led)
                   /\ SetLedger(d.led)
                   /\ inflight' =
                        IF d.suspend
                        THEN (inflight (-) SetToBag({AtFetch}))
                             (+) SetToBag({[pc |-> "advisory", md |-> md,
                                            signals |-> d.signals]})
                        ELSE inflight (-) SetToBag({AtFetch})
                   /\ peakSeen' = PeakAfter(md, d.led.pos)
    /\ UNCHANGED <<isTradingActive, loopVariant, ollama, market, unitVars>>

\* the stretch from the answer of the advisory
AdvisoryReturns(tk, resp) ==
    /\ Sound
    /\ BagIn(tk, inflight)
    /\ tk.pc = "advisory"
    /\ \E signal \in {LetAIPickBest(tk.signals, resp)} :
         \E L1 \in {ExecuteTrade(Ledger, signal, PriceOf(tk.md, signal.token))} :
            /\ Followed(L1)
            /\ SetLedger(L1)
            /\ peakSeen' = PeakAfter(<<>>, L1.pos)
    /\ inflight' = inflight (-) SetToBag({tk})
    /\ UNCHANGED <<isTradingActive, loopVariant, historyLen, ollama, market,
                   unitVars>>

\* POST /api/status with a boolean isTradingActive
SetStatus(active) ==
    /\ isTradingActive # active
    /\ isTradingActive' = active
    /\ UNCHANGED <<inflight, loopVariant, ledgerVars, historyLen, ollama, market,
                   unitVars, peakSeen>>

\* checkOllamaConnection settles
CheckOllamaConnection(ok) ==
    /\ ollama = "pending"
    /\ ollama' = IF ok THEN "up" ELSE "down"
    /\ UNCHANGED <<isTradingActive, inflight, loopVariant, ledgerVars, historyLen,
                   market, unitVars, peakSeen>>

\* Date.now() moves on
ClockAdvance ==
    /\ \E t \in Tokens : sinceLastTrade[t] < TRADE_COOLDOWN_MS
    /\ sinceLastTrade' =
         [t \in Tokens |-> Min(sinceLastTrade[t] + ClockStep, TRADE_COOLDOWN_MS)]
    /\ UNCHANGED <<engineVars, cashBalance, positions, trades, tradeCounter, market,
                   unitVars, peakSeen>>

(***************************************************************************)
(* Initial states.                                                         *)
(***************************************************************************)
\* the ledger of a process started without a store file
Fresh ==
    [cash |-> INITIAL_BALANCE, pos |-> [t \in {} |-> NoPosition], trades |-> <<>>,
     counter |-> 0, since |-> [t \in Tokens |-> TRADE_COOLDOWN_MS]]

\* arbResp before letAIPickBest has been answered
NoResponse ==
    [status |-> "pending", json |-> "throws", token |-> Absent, action |-> Absent,
     confidence |-> 0]

\* roundTrip while no buy is looked at in exact arithmetic
NoRoundTrip ==
    [phase |-> "idle", feeRate |-> 0, price |-> 1, investmentAmount |-> 0,
     cashBefore |-> 0, cashBalance |-> 0, netAmount |-> 0]

\* called before executeTrade has been called
NoCall ==
    [token |-> "none", action |-> "HOLD", price |-> 0, returned |-> "none",
     cooldown |-> FALSE, held |-> FALSE, availableCash |-> 0, calls |-> 0]

\* what the server has answered or run last, for the properties: status is
\* the HTTP status of a request, 0 for a tradingLoop invocation; mode is the
\* mode a request asked for, or the one an invocation was started under
Served(kind, status, mode, exec, traded) ==
    [kind |-> kind, status |-> status, mode |-> mode, exec |-> exec,
     traded |-> traded]

\* BotState.tradingMode and liveExecutioner after the module has loaded, no
\* tradingLoop invocation suspended; privateKey tells whether the environment
\* holds the credentials  new LiveExecutioner()  asks for
ServerIdle(privateKey) ==
    [tradingMode |-> "PAPER", liveExecutioner |-> "null", privateKey |-> privateKey,
     ticks |-> [m \in {"PAPER", "LIVE"} |-> 0], switchFailed |-> FALSE,
     last |-> Served("none", 0, "none", "none", FALSE)]

\* PersistedData: what saveToDisk writes of the ledger
Persisted(L) ==
    [cashBalance |-> L.cash, positions |-> L.pos, trades |-> L.trades,
     tradeCounter |-> L.counter]

\* data/store.json.  kind tells whether the file is there, can be read and
\* parses; of a file that parses, cashBalance and positions tell what has
\* become of these two members, and data holds what was written.  phase
\* follows the file from the write to the load by the next process.
Store(phase, kind, cashMember, positionsMember, data) ==
    [phase |-> phase, kind |-> kind, cashBalance |-> cashMember,
     positions |-> positionsMember, data |-> data]

\* what an indicator returns: null, or the quotient num / den
Null == [isNull |-> TRUE, num |-> 0, den |-> 1]

Number(num, den) == [isNull |-> FALSE, num |-> num, den |-> den]

\* MACDResult or null: macd, signal and histogram in units of 1 / den
MacdNull == [isNull |-> TRUE, macd |-> 0, signal |-> 0, histogram |-> 0, den |-> 1]

\* no history handed to an indicator yet
NoIndicators ==
    [prices |-> <<>>, period |-> 14, called |-> "none", rsi |-> Null, macd |-> MacdNull]

\* previousMacdHistogram before any histogram was stored
NoHistogram == [t \in Tokens |-> Null]

\* no calculateIndicators call yet
NoTechnical ==
    [priceHistory |-> [t \in Tokens |-> <<>>], token |-> "none", prevHist |-> Null,
     macd |-> MacdNull, macdCrossover |-> "NONE"]

\* no generateRuleBasedSignal call yet
NoRuled ==
    [price |-> 0, change24h |-> 0, ind |-> Flat, held |-> FALSE, amount |-> 0,
     pnlPercentage |-> 0, newsSentiment |-> "neutral",
     signal |-> [token |-> "none", action |-> "HOLD", strength |-> 0]]

\* no store file, the process started without one
NoStore == Store("loaded", "missing", "ok", "ok", Persisted(Fresh))

UnitsIdle ==
    /\ monitored = <<>>
    /\ arbSignals = <<>>
    /\ arbResp = NoResponse
    /\ arbResult = NoSignal
    /\ roundTrip = NoRoundTrip
    /\ called = NoCall
    /\ server = ServerIdle(FALSE)
    /\ store = NoStore
    /\ indicators = NoIndicators
    /\ previousMacdHistogram = NoHistogram
    /\ technical = NoTechnical
    /\ ruled = NoRuled

\* BotState and AIService after construction: bot stopped, no history, the
\* connection check not yet answered
EngineIdle ==
    /\ isTradingActive = FALSE
    /\ inflight = EmptyBag
    /\ historyLen = 0
    /\ ollama = "pending"

\* loadFromDisk: L is what the store file held, lastTradeTime starts empty
Loaded(L) ==
    /\ cashBalance = L.cash
    /\ positions = L.pos
    /\ trades = L.trades
    /\ tradeCounter = L.counter
    /\ sinceLastTrade = [t \in Tokens |-> TRADE_COOLDOWN_MS]
    /\ peakSeen = [t \in Tokens |-> 0]

InitEngine == EngineIdle /\ Loaded(Fresh) /\ UnitsIdle

Init == InitEngine /\ loopVariant = 2 /\ market = "calm"

InitWild == InitEngine /\ loopVariant = 2 /\ market = "wild"

Next ==
    \/ TimerFires
    \/ \E md \in Feed : FetchReturns(md)
    \/ \E tk \in BagToSet(inflight), resp \in EngineResponses : AdvisoryReturns(tk, resp)
    \/ \E active \in BOOLEAN : SetStatus(active)
    \/ \E ok \in BOOLEAN : CheckOllamaConnection(ok)
    \/ ClockAdvance

\* the engine in a calm market
Spec == Init /\ [][Next]_vars

\* the engine in a wild market
SpecWild == InitWild /\ [][Next]_vars

(***************************************************************************)
(* The monitor taken alone: a process started from a store file that holds *)
(* open positions, scanning while analyzeAndDecide is still warming up, so  *)
(* that each tradingLoop invocation is the monitor pass and nothing else.  *)
(***************************************************************************)
\* store files written after the opening buys: SOL alone, or SOL and JUP
OpenedStores ==
    {Buy(Fresh, "SOL", p) : p \in {900, 1000}}
    \cup {Buy(Buy(Fresh, "SOL", p), "JUP", 1000) : p \in {900, 1000}}

\* one tradingLoop invocation, from the timer to its end
MonitorTick(md) ==
    /\ DOMAIN positions # {}
    /\ \E m \in {MonitorPass(Ledger, md, loopVariant)} :
         /\ SetLedger(m.led)
         /\ monitored' = m.evals
         /\ peakSeen' = PeakAfter(md, m.led.pos)
    /\ UNCHANGED <<engineVars, market, arbSignals, arbResp, arbResult, roundTrip, called,
                   server, store, indicators, previousMacdHistogram, technical, ruled>>

InitMon ==
    /\ EngineIdle
    /\ \E L \in OpenedStores : Loaded(L)
    /\ UnitsIdle
    /\ loopVariant = 2
    /\ market = "ladder"

NextMon ==
    \/ \E md \in Feed : MonitorTick(md)
    \/ ClockAdvance

SpecMon == InitMon /\ [][NextMon]_vars

\* the same with the tradingLoop of server.ts 156-199, which leaves the peaks
\* to monitorPositions
InitMonV1 ==
    /\ EngineIdle
    /\ \E L \in OpenedStores : Loaded(L)
    /\ UnitsIdle
    /\ loopVariant = 1
    /\ market = "ladder"

SpecMonV1 == InitMonV1 /\ [][NextMon]_vars

\* store files written after SOL was bought at 2.5, alone or before JUP
RallyStores ==
    {Buy(Fresh, "SOL", 25000), Buy(Buy(Fresh, "SOL", 25000), "JUP", 1000)}

\* the monitor while SOL rallies
InitRally ==
    /\ EngineIdle
    /\ \E L \in RallyStores : Loaded(L)
    /\ UnitsIdle
    /\ loopVariant = 2
    /\ market = "rally"

SpecRally == InitRally /\ [][NextMon]_vars

\* the monitor while JUP slides
InitSlide ==
    /\ EngineIdle
    /\ \E L \in OpenedStores : Loaded(L)
    /\ UnitsIdle
    /\ loopVariant \in {1, 2}
    /\ market = "slide"

SpecSlide == InitSlide /\ [][NextMon]_vars

\* a tradingLoop invocation that changes the state can be made
TickEnabled ==
    /\ DOMAIN positions # {}
    /\ \E md \in Feed :
         \E m \in {MonitorPass(Ledger, md, loopVariant)} :
            \/ m.led # Ledger
            \/ m.evals # monitored
            \/ PeakAfter(md, m.led.pos) # peakSeen

\* the monitor in the ladder market under fair ticking: setInterval keeps
\* firing tradingLoop and the clock keeps running. The first fairness
\* condition is WF_vars(\E md \in Feed : MonitorTick(md)) with its enabling
\* condition written out.
SpecExit ==
    /\ InitMon
    /\ [][NextMon]_vars
    /\ ([]<>~TickEnabled \/ []<><<\E md \in Feed : MonitorTick(md)>>_vars)
    /\ WF_vars(ClockAdvance)

(***************************************************************************)
(* The arbiter taken alone: analyzeAndDecide reaches step 2 with the rule  *)
(* signals of three symbols, letAIPickBest gets an answer.                 *)
(***************************************************************************)
ArbWatch == <<"SOL", "JUP", "BONK">>

\* a position as updatePrices leaves it, at the entry price or 1% above
Held(pnlPercentage) ==
    [amount |-> 119880, avgBuyPrice |-> 1000,
     currentPrice |-> 1000 + pnlPercentage \div 10,
     pnl |-> (11988 * pnlPercentage) \div FX, pnlPercentage |-> pnlPercentage,
     dcaLevel |-> 0, initialBuyPrice |-> 1000, highestPrice |-> 1010,
     totalCost |-> 11988]

\* what analyzeAndDecide may see for one symbol: price, reading, position
SymbolCases ==
    { [price |-> 1000, ic |-> Dip, held |-> FALSE, position |-> NoPosition],
      [price |-> 900, ic |-> Dip, held |-> FALSE, position |-> NoPosition],
      [price |-> 1000, ic |-> Top, held |-> FALSE, position |-> NoPosition],
      [price |-> 1000, ic |-> Top, held |-> TRUE, position |-> Held(0)],
      [price |-> 1010, ic |-> Dip, held |-> TRUE, position |-> Held(100)] }

\* step 1 of analyzeAndDecide on the symbols of ArbWatch, c[i] being what it
\* sees for the i-th
SignalsOf(c) ==
    LET idx(t) == CHOOSE i \in 1..Len(ArbWatch) : ArbWatch[i] = t
        toks == {ArbWatch[i] : i \in 1..Len(ArbWatch)}
        md == [i \in 1..Len(ArbWatch) |->
                 [token |-> ArbWatch[i], price |-> c[i].price, change24h |-> 0]]
        ic == [t \in toks |-> c[idx(t)].ic]
        pos == [t \in {u \in toks : c[idx(u)].held} |-> c[idx(t)].position]
    IN RuleSignals(md, ic, pos, 1)

\* the signal lists with which analyzeAndDecide calls letAIPickBest
ArbiterInputs ==
    {sigs \in {SignalsOf(c) : c \in [1..Len(ArbWatch) -> SymbolCases]} :
        ArbiterInvoked(sigs, TRUE)}

\* the confidence the advisory puts in its answers: a number that is no rule
\* strength of SymbolCases
AdvisedConfidence == 99

\* the answers of the advisory: no answer, a bad status, a body that is not
\* JSON or not an object, an object with or without usable token and action
ArbResponses ==
    {[status |-> st, json |-> "throws", token |-> Absent, action |-> Absent,
      confidence |-> 0] :
        st \in {"error", "notok"}}
    \cup {[status |-> "ok", json |-> j, token |-> Absent, action |-> Absent,
           confidence |-> 0] :
             j \in {"throws", "null"}}
    \cup {[status |-> "ok", json |-> "object", token |-> t, action |-> a,
           confidence |-> AdvisedConfidence] :
             t \in {"SOL", "sol", "JUP", "jup", "BONK", "DOGE", Absent, NotAString},
             a \in {"BUY", "sell", "SELL", "HOLD", "MOON", Absent, NotAString}}

\* analyzeAndDecide, step 2: more than one non-HOLD signal and the advisory
\* is available
ArbAsk(signals) ==
    /\ arbSignals = <<>>
    /\ arbSignals' = signals
    /\ UNCHANGED <<engineVars, ledgerVars, market, monitored, arbResp, arbResult, roundTrip,
                   called, server, store, indicators, previousMacdHistogram, technical, ruled, peakSeen>>

\* letAIPickBest returns
ArbAnswer(resp) ==
    /\ arbSignals # <<>>
    /\ arbResult = NoSignal
    /\ arbResp' = resp
    /\ arbResult' = LetAIPickBest(arbSignals, resp)
    /\ UNCHANGED <<engineVars, ledgerVars, market, monitored, arbSignals, roundTrip, called,
                   server, store, indicators, previousMacdHistogram, technical, ruled, peakSeen>>

InitArb ==
    /\ EngineIdle
    /\ Loaded(Fresh)
    /\ UnitsIdle
    /\ loopVariant = 2
    /\ market = "calm"

NextArb ==
    \/ \E signals \in ArbiterInputs : ArbAsk(signals)
    \/ \E resp \in ArbResponses : ArbAnswer(resp)

SpecArb == InitArb /\ [][NextArb]_vars

(***************************************************************************)
(* analyzeAndDecide taken alone, called scan after scan from an empty      *)
(* price history with what SymbolCases lists for the symbols of ArbWatch.  *)
(* arbSignals holds the rule signals of the last call, arbResult what the  *)
(* call returned (NoSignal for null and while it waits for the advisory).  *)
(***************************************************************************)
\* Faulty variant of the warmup check: the warmup is over once a second
\* price has been collected.
WarmupOnlyWhenEmpty(avgDataPoints) == avgDataPoints <= 1

\* avgDataPoints < TRADING_RULES.WARMUP_PERIOD
Warmup(avgDataPoints) == avgDataPoints < WARMUP_PERIOD

\* what analyzeAndDecide returns during warmup
WarmupSignal ==
    [token |-> "SYSTEM", action |-> "HOLD", confidence |-> 0, reason |-> "warmup"]

\* the call waits for the answer of the advisory
AwaitingAdvisory ==
    /\ ArbiterInvoked(arbSignals, isOllamaAvailable)
    /\ arbResp = NoResponse
    /\ arbResult = NoSignal

\* analyzeAndDecide from its entry to  await fetch  in letAIPickBest, or to
\* its return
AnalyzeAndDecide(c) ==
    /\ ~AwaitingAdvisory
    /\ historyLen' = Min(historyLen + 1, WARMUP_PERIOD)
    /\ arbResp' = NoResponse
    /\ IF Warmup(historyLen + 1)
       THEN /\ arbSignals' = <<>>
            /\ arbResult' = WarmupSignal
       ELSE \E signals \in {SignalsOf(c)} :
               /\ arbSignals' = signals
               /\ arbResult' = IF ArbiterInvoked(signals, isOllamaAvailable)
                               THEN NoSignal ELSE DirectDecision(signals)
    /\ UNCHANGED <<isTradingActive, inflight, loopVariant, ollama, ledgerVars,
                   market, monitored, roundTrip, called, server, store, indicators, previousMacdHistogram, technical, ruled,
                   peakSeen>>

\* analyzeAndDecide from the answer of the advisory to its return
AdvisoryAnswers(resp) ==
    /\ AwaitingAdvisory
    /\ arbResp' = resp
    /\ arbResult' = LetAIPickBest(arbSignals, resp)
    /\ UNCHANGED <<engineVars, ledgerVars, market, monitored, arbSignals, roundTrip, called,
                   server, store, indicators, previousMacdHistogram, technical, ruled, peakSeen>>

NextDecide ==
    \/ \E c \in [1..Len(ArbWatch) -> SymbolCases] : AnalyzeAndDecide(c)
    \/ \E resp \in ArbResponses : AdvisoryAnswers(resp)
    \/ \E ok \in BOOLEAN : CheckOllamaConnection(ok)

SpecDecide == InitArb /\ [][NextDecide]_vars

(***************************************************************************)
(* The ledger taken alone: executeTrade and updatePrices called in any     *)
(* order, with any signal and any of a few prices, as the clock advances.  *)
(***************************************************************************)
\* executeTrade calls looked at
MaxCalls == 3

\* prices the calls are made with: the entry price, and a fifth below it
CallPrices == {800, 1000}

\* three buys of a token at 0.1: the opening buy and the first two DCA entries
Ladder(L, token) == Buy(Buy(Buy(L, token, 1000), token, 1000), token, 1000)

\* the ladder, its last DCA entry made at 0.03, and the price back at 0.08
DeepLadder(L, token) == UpdatePrices(Buy(Ladder(L, token), token, 300), token, 800)

\* store files: none, and those written after SOL was laddered
LedgerStores == {Fresh, Ladder(Fresh, "SOL"), DeepLadder(Fresh, "SOL")}

\* executeTrade(signal, currentPrice); it returns the trade it booked, or null.
\* called keeps the signal and what the call read before it decided.
CallExecuteTrade(token, action, price) ==
    /\ cashBalance # NaN
    /\ called.calls < MaxCalls
    /\ \E L \in {ExecuteTrade(Ledger, [token |-> token, action |-> action], price)} :
         /\ SetLedger(L)
         /\ called' = [token |-> token, action |-> action, price |-> price,
                       returned |-> IF L.counter = tradeCounter THEN "null"
                                    ELSE "trade",
                       cooldown |-> CooldownActive(Ledger, token),
                       held |-> HasPosition(Ledger, token),
                       availableCash |->
                          cashBalance - Mul(GetTotalEquity(Ledger), MIN_CASH_RESERVE),
                       calls |-> called.calls + 1]
    /\ UNCHANGED <<engineVars, market, monitored, arbSignals, arbResp, arbResult,
                   roundTrip, server, store, indicators, previousMacdHistogram, technical, ruled, peakSeen>>

\* updatePrices(token, currentPrice)
CallUpdatePrices(token, price) ==
    /\ cashBalance # NaN
    /\ HasPosition(Ledger, token)
    /\ SetLedger(UpdatePrices(Ledger, token, price))
    /\ UNCHANGED <<engineVars, market, unitVars, peakSeen>>

InitLedger ==
    /\ EngineIdle
    /\ \E L \in LedgerStores : Loaded(L)
    /\ UnitsIdle
    /\ loopVariant = 2
    /\ market = "calm"

NextLedger ==
    \/ \E token \in Tokens, action \in {"BUY", "SELL", "HOLD"}, price \in CallPrices :
          CallExecuteTrade(token, action, price)
    \/ \E token \in Tokens, price \in CallPrices : CallUpdatePrices(token, price)
    \/ ClockAdvance

SpecLedger == InitLedger /\ [][NextLedger]_vars

(***************************************************************************)
(* The cash arithmetic of buy and sell taken alone, in exact arithmetic:   *)
(* amounts are whole numbers of ExactUnit-ths of 0.1 SOL, the fee rate is  *)
(* given in thousandths, and the token amount netAmount / price is kept as *)
(* that quotient, so that no step rounds.  A round trip is an accepted buy *)
(* of investmentAmount at a price and the sell of the whole position at    *)
(* the same price.                                                         *)
(***************************************************************************)
ExactUnit == 1000 * 1000

\* largest investmentAmount looked at, in tenths of a SOL
MaxInvestment == 30

\* fee rates looked at, in thousandths: none, and FEE_PERCENTAGE
FeeRates == {0, 1}

\* x * FEE_PERCENTAGE
ExactFee(x, feeRate) == (x \div 1000) * feeRate

\* Faulty variant of the proceeds of sell: the fee is not deducted.
SaleValue(netAmount, price, feeRate) == ((netAmount * price) \div price)

\* sell: saleValue = amount * price, fee = saleValue * FEE_PERCENTAGE,
\* netProceeds = saleValue - fee, with amount = netAmount / price
NetProceeds(netAmount, price, feeRate) ==
    LET saleValue == (netAmount * price) \div price
        fee == ExactFee(saleValue, feeRate)
    IN saleValue - fee

\* buy: fee, netAmount, cashBalance -= investmentAmount
ExactBuy(k, price, feeRate) ==
    /\ roundTrip.phase = "idle"
    /\ \E investmentAmount \in {k * ExactUnit} :
         roundTrip' =
            [phase |-> "bought", feeRate |-> feeRate, price |-> price,
             investmentAmount |-> investmentAmount,
             cashBefore |-> 100 * ExactUnit,
             cashBalance |-> 100 * ExactUnit - investmentAmount,
             netAmount |-> investmentAmount - ExactFee(investmentAmount, feeRate)]
    /\ UNCHANGED <<engineVars, ledgerVars, market, monitored, arbSignals, arbResp,
                   arbResult, called, server, store, indicators, previousMacdHistogram, technical, ruled, peakSeen>>

\* sell at the price of the buy: cashBalance += netProceeds
ExactSell ==
    /\ roundTrip.phase = "bought"
    /\ roundTrip' =
          [roundTrip EXCEPT
              !.phase = "sold",
              !.cashBalance = roundTrip.cashBalance
                                 + NetProceeds(roundTrip.netAmount, roundTrip.price,
                                               roundTrip.feeRate)]
    /\ UNCHANGED <<engineVars, ledgerVars, market, monitored, arbSignals, arbResp,
                   arbResult, called, server, store, indicators, previousMacdHistogram, technical, ruled, peakSeen>>

NextRoundTrip ==
    \/ \E k \in 1..MaxInvestment, price \in {1, 3, 7}, feeRate \in FeeRates :
          ExactBuy(k, price, feeRate)
    \/ ExactSell

SpecRoundTrip == InitArb /\ [][NextRoundTrip]_vars

(***************************************************************************)
(* The server: POST /api/status, POST /api/mode and tradingLoop, while     *)
(* analyzeAndDecide is still warming up, so that an invocation is cut once, *)
(* at  await fetchAllPrices.  server.ticks counts the suspended invocations *)
(* by the tradingMode they were started under.  The paper executioner is    *)
(* the ledger; of the live executioner only its construction is followed.   *)
(***************************************************************************)
Modes == {"PAPER", "LIVE"}

Suspended == server.ticks["PAPER"] + server.ticks["LIVE"]

\* POST /api/status: a body without a boolean  active  is answered 400
PostStatus(valid, active) ==
    /\ isTradingActive' = IF valid THEN active ELSE isTradingActive
    /\ server' = [server EXCEPT
                     !.last = Served("status", IF valid THEN 200 ELSE 400,
                                     "none", "none", FALSE)]
    /\ UNCHANGED <<inflight, loopVariant, historyLen, ollama, ledgerVars, market,
                   monitored, arbSignals, arbResp, arbResult, roundTrip, called,
                   store, indicators, previousMacdHistogram, technical, ruled, peakSeen>>

\* Faulty variant of POST /api/mode: the running bot is not tested.
ModeSwitchedWhileRunning(mode) ==
    IF mode \notin Modes
    THEN [server EXCEPT !.last = Served("mode", 400, mode, "none", FALSE)]
    ELSE IF mode = "LIVE" /\ server.liveExecutioner = "null" /\ ~server.privateKey
    THEN [server EXCEPT !.switchFailed = TRUE,
                        !.last = Served("mode", 500, mode, "none", FALSE)]
    ELSE [server EXCEPT !.tradingMode = mode,
                        !.liveExecutioner =
                            IF mode = "LIVE" THEN "ready" ELSE server.liveExecutioner,
                        !.last = Served("mode", 200, mode, "none", FALSE)]

\* Faulty variant of POST /api/mode: tradingMode is assigned before the live
\* executioner is constructed.
ModeSwitchedFirst(mode) ==
    IF isTradingActive \/ mode \notin Modes
    THEN [server EXCEPT !.last = Served("mode", 400, mode, "none", FALSE)]
    ELSE IF mode = "LIVE" /\ server.liveExecutioner = "null" /\ ~server.privateKey
    THEN [server EXCEPT !.tradingMode = mode,
                        !.switchFailed = TRUE,
                        !.last = Served("mode", 500, mode, "none", FALSE)]
    ELSE [server EXCEPT !.tradingMode = mode,
                        !.liveExecutioner =
                            IF mode = "LIVE" THEN "ready" ELSE server.liveExecutioner,
                        !.last = Served("mode", 200, mode, "none", FALSE)]

\* POST /api/mode: what it leaves in BotState and liveExecutioner.  The three
\* handlers test the running bot and the mode name in different orders and
\* answer 400 to either.
ModeSwitched(mode) ==
    IF isTradingActive \/ mode \notin Modes
    THEN [server EXCEPT !.last = Served("mode", 400, mode, "none", FALSE)]
    ELSE IF mode = "LIVE" /\ server.liveExecutioner = "null" /\ ~server.privateKey
    THEN \* new LiveExecutioner() throws: nothing is assigned
         [server EXCEPT !.switchFailed = TRUE,
                        !.last = Served("mode", 500, mode, "none", FALSE)]
    ELSE [server EXCEPT !.tradingMode = mode,
                        !.liveExecutioner =
                            IF mode = "LIVE" THEN "ready" ELSE server.liveExecutioner,
                        !.last = Served("mode", 200, mode, "none", FALSE)]

PostMode(mode) ==
    /\ server' = ModeSwitched(mode)
    /\ UNCHANGED <<engineVars, ledgerVars, market, monitored, arbSignals, arbResp,
                   arbResult, roundTrip, called, store, indicators, previousMacdHistogram, technical, ruled, peakSeen>>

\* Faulty variant of the entry of tradingLoop: isTradingActive is not tested.
TickStartsAlways ==
    /\ Suspended < MaxInFlight
    /\ server' = [server EXCEPT
                     !.ticks[server.tradingMode] = @ + 1,
                     !.last = Served("started", 0, server.tradingMode, "none", FALSE)]
    /\ UNCHANGED <<engineVars, ledgerVars, market, monitored, arbSignals, arbResp,
                   arbResult, roundTrip, called, store, indicators, previousMacdHistogram, technical, ruled, peakSeen>>

\* setInterval fires: tradingLoop returns at once when the bot is stopped, and
\* runs up to  await fetchAllPrices  otherwise
TickStarts ==
    /\ Suspended < MaxInFlight
    /\ server' = IF ~isTradingActive
                 THEN [server EXCEPT
                          !.last = Served("skipped", 0, server.tradingMode, "none", FALSE)]
                 ELSE [server EXCEPT
                          !.ticks[server.tradingMode] = @ + 1,
                          !.last = Served("started", 0, server.tradingMode, "none", FALSE)]
    /\ UNCHANGED <<engineVars, ledgerVars, market, monitored, arbSignals, arbResp,
                   arbResult, roundTrip, called, store, indicators, previousMacdHistogram, technical, ruled, peakSeen>>

\* the executioner tradingLoop picks once the prices are there
SelectExecutioner ==
    IF server.tradingMode = "LIVE" /\ server.liveExecutioner = "ready" THEN "live"
    ELSE IF server.tradingMode = "LIVE" /\ loopVariant = 2 THEN "none"
    ELSE "paper"

\* fetchAllPrices returns to an invocation started under the mode  started :
\* the rest of tradingLoop
TickResumes(started, md) ==
    /\ server.ticks[started] > 0
    /\ \E exec \in {SelectExecutioner} :
         \E m \in {MonitorPass(Ledger, md, loopVariant)} :
            /\ IF exec = "paper"
               THEN /\ SetLedger(m.led)
                    /\ monitored' = m.evals
                    /\ peakSeen' = PeakAfter(md, m.led.pos)
               ELSE UNCHANGED <<ledgerVars, monitored, peakSeen>>
            /\ isTradingActive' = IF exec = "none" THEN FALSE ELSE isTradingActive
            /\ server' = [server EXCEPT
                             !.ticks[started] = @ - 1,
                             !.last = Served("finished", 0, started, exec,
                                             exec = "paper"
                                                /\ m.led.counter > tradeCounter)]
    /\ UNCHANGED <<inflight, loopVariant, historyLen, ollama, market, arbSignals,
                   arbResp, arbResult, roundTrip, called, store, indicators, previousMacdHistogram, technical, ruled>>

InitServer ==
    /\ EngineIdle
    /\ \E L \in OpenedStores : Loaded(L)
    /\ monitored = <<>>
    /\ arbSignals = <<>>
    /\ arbResp = NoResponse
    /\ arbResult = NoSignal
    /\ roundTrip = NoRoundTrip
    /\ called = NoCall
    /\ store = NoStore
    /\ indicators = NoIndicators
    /\ previousMacdHistogram = NoHistogram
    /\ technical = NoTechnical
    /\ ruled = NoRuled
    /\ \E privateKey \in BOOLEAN : server = ServerIdle(privateKey)
    /\ loopVariant \in {1, 2}
    /\ market = "calm"

NextServer ==
    \/ \E valid \in BOOLEAN, active \in BOOLEAN : PostStatus(valid, active)
    \/ \E mode \in Modes \cup {"DEMO"} : PostMode(mode)
    \/ TickStarts
    \/ \E started \in Modes, md \in Feed : TickResumes(started, md)
    \/ ClockAdvance

SpecServer == InitServer /\ [][NextServer]_vars

(***************************************************************************)
(* The store file: saveToDisk after every accepted trade, the file damaged *)
(* or removed behind the process's back, and loadFromDisk in the           *)
(* constructor of the next process.                                        *)
(***************************************************************************)
\* a position read back from an object that kept nothing but its token: its
\* numeric members are undefined
StrippedPosition ==
    [amount |-> NaN, avgBuyPrice |-> NaN, currentPrice |-> NaN, pnl |-> NaN,
     pnlPercentage |-> NaN, dcaLevel |-> NaN, initialBuyPrice |-> NaN,
     highestPrice |-> NaN, totalCost |-> NaN]

\* the constructor: field initialisers, then loadFromDisk.  Reading, parsing,
\* pos.token on a null element and cashBalance.toFixed on a non-number throw
\* inside the try, and the catch resets the four fields.
LoadFromDisk(f) ==
    IF f.kind = "missing" THEN Fresh
    ELSE IF f.kind \in {"unreadable", "garbled"} THEN Fresh
    ELSE IF f.positions = "nullElement" THEN Fresh
    ELSE IF f.cashBalance = "wrongType" THEN Fresh
    ELSE [cash |-> IF f.cashBalance = "absent" THEN INITIAL_BALANCE
                   ELSE f.data.cashBalance,
          pos |-> IF f.positions = "absent" THEN [t \in {} |-> NoPosition]
                  ELSE IF f.positions = "stripped"
                  THEN [t \in DOMAIN f.data.positions |-> StrippedPosition]
                  ELSE f.data.positions,
          trades |-> f.data.trades,
          counter |-> f.data.tradeCounter,
          since |-> [t \in Tokens |-> TRADE_COOLDOWN_MS]]

\* is the file not what saveToDisk wrote
Corrupt(f) ==
    \/ f.kind \in {"unreadable", "garbled"}
    \/ f.kind = "json" /\ (f.cashBalance # "ok" \/ f.positions # "ok")

\* executeTrade on the ledger, and saveToDisk when it booked a trade
TradeAndSave(token, action, price) ==
    /\ \A t \in DOMAIN positions : positions[t].amount # NaN
    /\ called.calls < MaxCalls
    /\ \E L \in {ExecuteTrade(Ledger, [token |-> token, action |-> action], price)} :
         /\ SetLedger(L)
         /\ called' = [token |-> token, action |-> action, price |-> price,
                       returned |-> IF L.counter = tradeCounter THEN "null"
                                    ELSE "trade",
                       cooldown |-> CooldownActive(Ledger, token),
                       held |-> HasPosition(Ledger, token),
                       availableCash |->
                          cashBalance - Mul(GetTotalEquity(Ledger), MIN_CASH_RESERVE),
                       calls |-> called.calls + 1]
         /\ store' = IF L.counter = tradeCounter THEN store
                     ELSE Store("written", "json", "ok", "ok", Persisted(L))
    /\ UNCHANGED <<engineVars, market, monitored, arbSignals, arbResp, arbResult,
                   roundTrip, server, indicators, previousMacdHistogram, technical, ruled, peakSeen>>

\* what may become of a written file before the next process reads it
Damaged(f) ==
    {[f EXCEPT !.phase = "damaged", !.kind = k] :
        k \in {"missing", "unreadable", "garbled"}}
    \cup {[f EXCEPT !.phase = "damaged", !.cashBalance = c] :
             c \in {"absent", "wrongType"}}
    \cup {[f EXCEPT !.phase = "damaged", !.positions = c] :
             c \in {"absent"}
                   \cup (IF DOMAIN f.data.positions = {} THEN {}
                         ELSE {"nullElement", "stripped"})}

Damage(g) ==
    /\ store.phase = "written"
    /\ store' = g
    /\ UNCHANGED <<engineVars, ledgerVars, market, monitored, arbSignals, arbResp,
                   arbResult, roundTrip, called, server, indicators, previousMacdHistogram, technical, ruled, peakSeen>>

\* the process ends and the next one is constructed
Restart ==
    /\ store.phase \in {"written", "damaged"}
    /\ SetLedger(LoadFromDisk(store))
    /\ store' = [store EXCEPT !.phase = "loaded"]
    /\ peakSeen' = [t \in Tokens |-> 0]
    /\ UNCHANGED <<engineVars, market, monitored, arbSignals, arbResp, arbResult,
                   roundTrip, called, server, indicators, previousMacdHistogram, technical, ruled>>

NextStore ==
    \/ \E token \in Tokens, action \in {"BUY", "SELL"}, price \in CallPrices :
          TradeAndSave(token, action, price)
    \/ \E g \in Damaged(store) : Damage(g)
    \/ Restart
    \/ ClockAdvance

SpecStore == InitWild /\ [][NextStore]_vars

(***************************************************************************)
(* The indicators of src/src/types/index.ts taken alone.  A history is a   *)
(* sequence of prices in whole ticks, NaN standing for a sample that is    *)
(* not a finite number.  calculateRSI is computed exactly, as a quotient;  *)
(* the moving averages are kept in units of 1 / EmaScale, quotients        *)
(* rounded down.                                                           *)
(***************************************************************************)
MaxHistory == 36

EmaScale == 1000

fastPeriod == 12

slowPeriod == 26

signalPeriod == 9

Periods == {0, 1, 2, 14}

Abs(x) == IF x < 0 THEN 0 - x ELSE x

\* prices.slice(0, n)
Slice(prices, n) == SubSeq(prices, 1, Min(n, Len(prices)))

RECURSIVE SumOf(_)
SumOf(xs) == IF xs = <<>> THEN 0 ELSE Head(xs) + SumOf(Tail(xs))

\* the sum of the positive changes, and of the others in absolute value,
\* among the last `period` changes
RECURSIVE Gains(_, _, _)
Gains(prices, from, positive) ==
    IF from >= Len(prices) THEN 0
    ELSE LET change == prices[from + 1] - prices[from]
         IN  (IF positive /\ change > 0 THEN change
              ELSE IF ~positive /\ ~(change > 0) THEN Abs(change)
              ELSE 0)
             + Gains(prices, from + 1, positive)

\* Faulty variant of calculateRSI: a history of `period` samples is let through
CalculateRSILenient(prices, period) ==
    IF Len(prices) = 0 \/ period <= 0 THEN Null
    ELSE IF Len(prices) < period THEN Null
    ELSE IF \E i \in DOMAIN prices : prices[i] = NaN THEN Null
    ELSE LET from == Max(1, Len(prices) - period)
             gains == Gains(prices, from, TRUE)
             losses == Gains(prices, from, FALSE)
         IN  IF losses = 0 THEN Number(100, 1)
             ELSE Number(100 * gains, gains + losses)

\* calculateRSI: 100 - 100 / (1 + avgGain / avgLoss) is 100 gains / (gains + losses)
CalculateRSI(prices, period) ==
    IF Len(prices) = 0 \/ period <= 0 THEN Null
    ELSE IF Len(prices) < period + 1 THEN Null
    ELSE IF \E i \in DOMAIN prices : prices[i] = NaN THEN Null
    ELSE LET from == Len(prices) - period
             gains == Gains(prices, from, TRUE)
             losses == Gains(prices, from, FALSE)
         IN  IF losses = 0 THEN Number(100, 1)
             ELSE Number(100 * gains, gains + losses)

\* ema = (prices[i] - ema) * multiplier + ema for i from `from` on
RECURSIVE EmaLoop(_, _, _, _)
EmaLoop(values, period, from, ema) ==
    IF from > Len(values) THEN ema
    ELSE EmaLoop(values, period, from + 1,
                 ((values[from] - ema) * 2) \div (period + 1) + ema)

\* calculateEMA on values in units of 1 / EmaScale
CalculateEMA(values, period) ==
    IF Len(values) = 0 \/ period <= 0 THEN Null
    ELSE IF Len(values) < period THEN Null
    ELSE IF \E i \in DOMAIN values : values[i] = NaN THEN Number(NaN, EmaScale)
    ELSE Number(EmaLoop(values, period, period + 1,
                        SumOf(Slice(values, period)) \div period), EmaScale)

\* fastEMA - slowEMA of prices.slice(0, i) for i from `from` on, where neither
\* is null
RECURSIVE MacdLineValues(_, _)
MacdLineValues(values, from) ==
    IF from > Len(values) THEN <<>>
    ELSE LET fastEMA == CalculateEMA(Slice(values, from), fastPeriod)
             slowEMA == CalculateEMA(Slice(values, from), slowPeriod)
         IN  (IF fastEMA.isNull \/ slowEMA.isNull THEN <<>>
              ELSE IF fastEMA.num = NaN \/ slowEMA.num = NaN THEN <<NaN>>
              ELSE <<fastEMA.num - slowEMA.num>>)
             \o MacdLineValues(values, from + 1)

MacdResult(macd, signal) ==
    [isNull |-> FALSE, macd |-> macd, signal |-> signal,
     histogram |-> IF macd = NaN \/ signal = NaN THEN NaN ELSE macd - signal,
     den |-> EmaScale]

\* Faulty variant of calculateMACD: one sample more is asked for
CalculateMACDLate(prices) ==
    IF Len(prices) = 0 THEN MacdNull
    ELSE IF Len(prices) < slowPeriod + signalPeriod THEN MacdNull
    ELSE LET values == [i \in DOMAIN prices |->
                           IF prices[i] = NaN THEN NaN ELSE prices[i] * EmaScale]
             line == MacdLineValues(values, slowPeriod)
         IN  IF Len(line) < signalPeriod THEN MacdNull
             ELSE LET signal == CalculateEMA(line, signalPeriod)
                  IN  IF signal.isNull THEN MacdNull
                      ELSE MacdResult(line[Len(line)], signal.num)

CalculateMACD(prices) ==
    IF Len(prices) = 0 THEN MacdNull
    ELSE IF Len(prices) < slowPeriod + signalPeriod - 1 THEN MacdNull
    ELSE LET values == [i \in DOMAIN prices |->
                           IF prices[i] = NaN THEN NaN ELSE prices[i] * EmaScale]
             line == MacdLineValues(values, slowPeriod)
         IN  IF Len(line) < signalPeriod THEN MacdNull
             ELSE LET signal == CalculateEMA(line, signalPeriod)
                  IN  IF signal.isNull THEN MacdNull
                      ELSE MacdResult(line[Len(line)], signal.num)

\* the histories handed to the indicators: n samples that stay put, rise,
\* fall, alternate, or hold one sample that is not a number
Shapes == {"flat", "rising", "falling", "zigzag", "gap"}

History(shape, n) ==
    [i \in 1..n |->
        IF shape = "rising" THEN 50 + i
        ELSE IF shape = "falling" THEN 90 - i
        ELSE IF shape = "zigzag" THEN 50 + 3 * (i % 2)
        ELSE IF shape = "gap" /\ i = (n + 1) \div 2 THEN NaN
        ELSE 50]

Histories == {History(shape, n) : shape \in Shapes, n \in 0..MaxHistory}

Finite(prices) == \A i \in DOMAIN prices : prices[i] # NaN

CallCalculateRSI ==
    /\ indicators.called = "none"
    /\ indicators' = [indicators EXCEPT
                         !.called = "calculateRSI",
                         !.rsi = CalculateRSI(indicators.prices, indicators.period)]
    /\ UNCHANGED <<engineVars, ledgerVars, market, monitored, arbSignals, arbResp,
                   arbResult, roundTrip, called, server, store,
                   previousMacdHistogram, technical, ruled, peakSeen>>

CallCalculateMACD ==
    /\ indicators.called = "none"
    /\ indicators' = [indicators EXCEPT
                         !.called = "calculateMACD",
                         !.macd = CalculateMACD(indicators.prices)]
    /\ UNCHANGED <<engineVars, ledgerVars, market, monitored, arbSignals, arbResp,
                   arbResult, roundTrip, called, server, store,
                   previousMacdHistogram, technical, ruled, peakSeen>>

InitIndicators ==
    /\ EngineIdle
    /\ Loaded(Fresh)
    /\ monitored = <<>>
    /\ arbSignals = <<>>
    /\ arbResp = NoResponse
    /\ arbResult = NoSignal
    /\ roundTrip = NoRoundTrip
    /\ called = NoCall
    /\ server = ServerIdle(FALSE)
    /\ store = NoStore
    /\ \E prices \in Histories, period \in Periods :
          indicators = [NoIndicators EXCEPT !.prices = prices, !.period = period]
    /\ previousMacdHistogram = NoHistogram
    /\ technical = NoTechnical
    /\ ruled = NoRuled
    /\ loopVariant = 2
    /\ market = "calm"

NextIndicators == CallCalculateRSI \/ CallCalculateMACD

SpecIndicators == InitIndicators /\ [][NextIndicators]_vars

(***************************************************************************)
(* calculateIndicators taken alone: scan after scan a price is pushed on   *)
(* the history of a symbol and its indicators are computed.                *)
(***************************************************************************)
MAX_HISTORY == 50

\* history.push(data.price); if (history.length > MAX_HISTORY) history.shift()
PushPrice(history, price) ==
    IF Len(history) + 1 > MAX_HISTORY THEN Tail(Append(history, price))
    ELSE Append(history, price)

\* a comparison with NaN is false
Negative(x) == x # NaN /\ x < 0
Positive(x) == x # NaN /\ x > 0

\* Faulty variant of calculateIndicators: a previous histogram of exactly 0
\* counts on either side of the crossover.
CalculateIndicatorsFromZero(token, history, stored) ==
    LET prevHist == stored[token]
        macd == CalculateMACD(history)
    IN [prevHist |-> prevHist,
        macd |-> macd,
        macdCrossover |->
            IF ~macd.isNull /\ ~prevHist.isNull
            THEN IF ~Positive(prevHist.num) /\ Positive(macd.histogram) THEN "BULLISH"
                 ELSE IF ~Negative(prevHist.num) /\ Negative(macd.histogram)
                      THEN "BEARISH"
                      ELSE "NONE"
            ELSE "NONE",
        stored |-> IF ~macd.isNull
                   THEN [stored EXCEPT ![token] = Number(macd.histogram, EmaScale)]
                   ELSE stored]

\* calculateIndicators: the crossover from the stored histogram and the
\* current one, then the current one stored if there is a MACD
CalculateIndicators(token, history, stored) ==
    LET prevHist == stored[token]
        macd == CalculateMACD(history)
    IN [prevHist |-> prevHist,
        macd |-> macd,
        macdCrossover |->
            IF ~macd.isNull /\ ~prevHist.isNull
            THEN IF Negative(prevHist.num) /\ Positive(macd.histogram) THEN "BULLISH"
                 ELSE IF Positive(prevHist.num) /\ Negative(macd.histogram)
                      THEN "BEARISH"
                      ELSE "NONE"
            ELSE "NONE",
        stored |-> IF ~macd.isNull
                   THEN [stored EXCEPT ![token] = Number(macd.histogram, EmaScale)]
                   ELSE stored]

\* one scan for one symbol: analyzeAndDecide pushes the price, then calls
\* calculateIndicators
ScanSymbol(token, price) ==
    /\ Len(technical.priceHistory[token]) < MaxHistory
    /\ \E history \in {PushPrice(technical.priceHistory[token], price)} :
         \E r \in {CalculateIndicators(token, history, previousMacdHistogram)} :
            /\ technical' =
                 [priceHistory |-> [technical.priceHistory EXCEPT ![token] = history],
                  token |-> token, prevHist |-> r.prevHist, macd |-> r.macd,
                  macdCrossover |-> r.macdCrossover]
            /\ previousMacdHistogram' = r.stored
    /\ UNCHANGED <<engineVars, ledgerVars, market, monitored, arbSignals, arbResp,
                   arbResult, roundTrip, called, server, store, indicators, ruled,
                   peakSeen>>

\* the scans up to one sample short of the first MACD have been made
InitTechnical ==
    /\ EngineIdle
    /\ Loaded(Fresh)
    /\ monitored = <<>>
    /\ arbSignals = <<>>
    /\ arbResp = NoResponse
    /\ arbResult = NoSignal
    /\ roundTrip = NoRoundTrip
    /\ called = NoCall
    /\ server = ServerIdle(FALSE)
    /\ store = NoStore
    /\ indicators = NoIndicators
    /\ previousMacdHistogram = NoHistogram
    /\ \E shape \in [Tokens -> {"flat", "zigzag", "gap"}] :
          technical =
             [NoTechnical EXCEPT
                 !.priceHistory =
                     [t \in Tokens |->
                         History(shape[t], slowPeriod + signalPeriod - 2)]]
    /\ ruled = NoRuled
    /\ loopVariant = 2
    /\ market = "calm"

NextTechnical == \E token \in Tokens, price \in {50, 53} : ScanSymbol(token, price)

SpecTechnical == InitTechnical /\ [][NextTechnical]_vars

(***************************************************************************)
(* The rule engine taken alone: generateRuleBasedSignal on the readings    *)
(* calculateIndicators may hand it for one symbol.                         *)
(***************************************************************************)
\* RSI readings: calculateRSI on histories of 10, 15 and 20 samples, an
\* oversold reading and one below 0.1
RsiCases ==
    {CalculateRSI(History(shape, n), 14) : shape \in Shapes, n \in {10, 15, 20}}
    \cup {Number(25, 1), Number(1, 20)}

ReadingCases ==
    {[rsi |-> rsi, sma20 |-> sma20, macd |-> macd, macdCrossover |-> x,
      news |-> news] :
        rsi \in RsiCases,
        sma20 \in {[isNull |-> TRUE, value |-> 0], [isNull |-> FALSE, value |-> 1000]},
        macd \in {[isNull |-> TRUE, value |-> 0], [isNull |-> FALSE, value |-> 1]},
        x \in {"NONE", "BULLISH", "BEARISH"},
        news \in {"bullish", "bearish", "neutral"}}

\* positions?.get(token): none, an open one in profit or loss, or one whose
\* amount a buy at DCA level 3 has made NaN
PositionCases ==
    {[held |-> FALSE, position |-> NoPosition]}
    \cup {[held |-> TRUE, position |-> Held(pnl)] : pnl \in {-200, 0, 100}}
    \cup {[held |-> TRUE, position |-> [Held(0) EXCEPT !.amount = NaN]]}

\* the arguments of one call, before it is made
Asked(price, change24h, ind, c) ==
    [price |-> price, change24h |-> change24h, ind |-> ind, held |-> c.held,
     amount |-> c.position.amount, pnlPercentage |-> c.position.pnlPercentage,
     newsSentiment |-> ind.news, signal |-> NoRuled.signal]

CallGenerateRuleBasedSignal ==
    /\ ruled.signal.token = "none"
    /\ ruled' =
         [ruled EXCEPT !.signal =
             GenerateRuleBasedSignal(
                 [token |-> "SOL", price |-> ruled.price, change24h |-> ruled.change24h],
                 ruled.ind, ruled.held /\ ruled.amount > 0,
                 [pnlPercentage |-> ruled.pnlPercentage], ruled.newsSentiment)]
    /\ UNCHANGED <<engineVars, ledgerVars, market, monitored, arbSignals, arbResp,
                   arbResult, roundTrip, called, server, store, indicators,
                   previousMacdHistogram, technical, peakSeen>>

InitRules ==
    /\ EngineIdle
    /\ Loaded(Fresh)
    /\ monitored = <<>>
    /\ arbSignals = <<>>
    /\ arbResp = NoResponse
    /\ arbResult = NoSignal
    /\ roundTrip = NoRoundTrip
    /\ called = NoCall
    /\ server = ServerIdle(FALSE)
    /\ store = NoStore
    /\ indicators = NoIndicators
    /\ previousMacdHistogram = NoHistogram
    /\ technical = NoTechnical
    /\ \E price \in {900, 1000}, change24h \in {0, -600}, ind \in ReadingCases,
          c \in PositionCases : ruled = Asked(price, change24h, ind, c)
    /\ loopVariant = 2
    /\ market = "calm"

NextRules == CallGenerateRuleBasedSignal

SpecRules == InitRules /\ [][NextRules]_vars

(***************************************************************************)
(* Properties of tradingLoop.                                              *)
(***************************************************************************)
\* C1: ticks never overlap: in every reachable state at most one tradingLoop
\* invocation is in flight (suspended at the price fetch or at the advisory).
TicksNeverOverlap == InFlight <= 1

\* C3: a tick executes at most one trade: no stretch of a tradingLoop
\* invocation books a trade for the monitor and another one for
\* analyzeAndDecide.
OneTradePerTick == [][tradeCounter' <= tradeCounter + 1]_vars

PeakCoversFeed ==
    inflight = EmptyBag =>
        \A t \in DOMAIN positions :
            /\ positions[t].highestPrice >= positions[t].initialBuyPrice
            /\ positions[t].highestPrice >= peakSeen[t]

\* pnlFromInitial <= DCA_ZONES[k], for the k-th zone
ZoneReached(p, currentPrice, k) ==
    (currentPrice - p.initialBuyPrice) * FX <= DCA_ZONES[k] * p.initialBuyPrice

\* C17: when monitorPositions returns a DCA buy for a position, the level it
\* names (dcaLevel + 1) is the deepest zone the price has reached, and it is
\* none of the zones the position has consumed (those up to dcaLevel).
DeepestZoneTriggered ==
    \A i \in 1..Len(monitored) :
        monitored[i].trigger = "dca" =>
            LET p == monitored[i].after
                nextLevel == p.dcaLevel + 1
            IN /\ nextLevel > p.dcaLevel
               /\ \A k \in 1..Len(DCA_ZONES) :
                     ZoneReached(p, monitored[i].price, k) => k <= nextLevel

\* C18: when the peak of a position stands 2% or more above its entry and the
\* price of the tick is 0.6% below that peak, monitorPositions returns the
\* trailing-stop SELL for the token.
RetraceSells ==
    \A i \in 1..Len(monitored) :
        LET p == monitored[i].after
        IN /\ p.dcaLevel = 0
           /\ p.highestPrice * FX >= p.initialBuyPrice * (FX + 200)
           /\ (p.highestPrice - monitored[i].price) * FX = 60 * p.highestPrice
           => monitored[i].trigger = "trailing"

\* C28: for every position a monitor pass evaluates, the pass proposes the
\* trailing-stop SELL if and only if, with the peak raised to the price of the
\* tick where that is higher, pnlPercentage is above 1.5% and the price is
\* more than 0.5% below the peak.
TrailingStopNeedsBoth ==
    \A i \in 1..Len(monitored) :
        LET ev == monitored[i]
            peak == Max(ev.before.highestPrice, ev.price)
        IN /\ ev.after.highestPrice = peak
           /\ ev.trigger = "trailing"
                 <=> /\ ev.before.pnlPercentage > 150
                     /\ (ev.price - peak) * 1000 < (0 - 5) * peak

\* a pass found a position more than 1.5% in profit below its peak, proposed
\* the trailing-stop SELL, and the position was sold
TrailingStopCases ==
    /\ Len(monitored) > 0
    /\ LET ev == monitored[Len(monitored)]
       IN /\ ev.trigger = "trailing"
          /\ ev.before.pnlPercentage > 150
          /\ ev.price < ev.before.highestPrice
          /\ \E t \in {trades[1]} : t.action = "SELL" /\ t.token = ev.token

\* the ledger as tradingLoop hands it to monitorPositions for a feed
AtMonitor(md) ==
    IF loopVariant = 2
    THEN UpdateTrailingHighs(UpdateAllPrices(Ledger, md, 1), md, 1)
    ELSE UpdateAllPrices(Ledger, md, 1)

\* the trigger that comes first for a position: trailing stop, then DCA, then
\* hard stop
FirstTrigger(p, price) ==
    CHOOSE g \in {"trailing", "dca", "hardstop", "none"} :
        /\ g = "trailing" => ProfitActivated(p) /\ CallbackTriggered(p, price)
        /\ g # "trailing" => ~(ProfitActivated(p) /\ CallbackTriggered(p, price))
        /\ g = "dca" => DcaTriggered(p, price)
        /\ g \in {"hardstop", "none"} => ~DcaTriggered(p, price)
        /\ g = "hardstop" => HardStopTriggered(p)
        /\ g = "none" => ~HardStopTriggered(p)

\* the hard-stop condition of monitorPositions holds for the stored position
HardStopDue(token) ==
    /\ token \in DOMAIN positions
    /\ positions[token].pnlPercentage # NaN
    /\ positions[token].pnlPercentage <= HARD_STOP_LOSS

OneForcedAction ==
    /\ \A md \in Feed :
          \E L \in {AtMonitor(md)} :
             LET hits == {i \in 1..Len(md) :
                            /\ HasPosition(L, md[i].token)
                            /\ FirstTrigger(L.pos[md[i].token], md[i].price) # "none"}
                 r == MonitorPositions(L, md)
             IN IF hits = {} THEN r.sig = NoSignal
                ELSE \E i \in hits :
                        /\ \A j \in hits : i <= j
                        /\ r.sig.token = md[i].token
                        /\ r.sig.reason = FirstTrigger(L.pos[md[i].token], md[i].price)
                        /\ r.sig.action = IF r.sig.reason = "dca" THEN "BUY" ELSE "SELL"
    /\ \A k \in 1..Len(monitored) :
          /\ k < Len(monitored) => monitored[k].action = "NONE"
          /\ \A j \in 1..Len(monitored) :
                j < k => \E a, b \in 1..Len(WATCHLIST) :
                            /\ a < b
                            /\ WATCHLIST[a] = monitored[j].token
                            /\ WATCHLIST[b] = monitored[k].token

\* a pass went by the first symbol, which had no trigger, and returned the
\* action of the second
SecondSymbolForced ==
    /\ Len(monitored) = 2
    /\ monitored[1].trigger = "none"
    /\ monitored[2].trigger # "none"

(***************************************************************************)
(* Properties of the ledger.                                               *)
(***************************************************************************)
\* C4: cooldown: a trade on a token is accepted only when TRADE_COOLDOWN_MS
\* have passed since the last accepted trade on that token, whichever path
\* asks for it; an executeTrade call before that books nothing, so no
\* stretch of a tick books two trades on one token.
CooldownRespected ==
    [][\A t \in Tokens :
          LET before == Len(SelectSeq(trades, LAMBDA x : x.token = t))
              after == Len(SelectSeq(trades', LAMBDA x : x.token = t))
          IN after # before
                => /\ after = before + 1
                   /\ sinceLastTrade[t] >= TRADE_COOLDOWN_MS]_vars

\* a token was traded, and traded again once its cooldown had passed
TradedAgain ==
    \E t \in Tokens : Len(SelectSeq(trades, LAMBDA x : x.token = t)) >= 2

\* C5: dcaLevel never decreases while a position is open and never exceeds
\* the number of DCA zones, 3.
DcaLevelBounded ==
    [][\A t \in DOMAIN positions' :
          /\ positions'[t].dcaLevel <= 3
          /\ t \in DOMAIN positions
                => positions'[t].dcaLevel >= positions[t].dcaLevel]_vars

\* C6: highestPrice of a position never decreases between the creation of
\* the position and its deletion.
PeakNeverDecreases ==
    [][\A t \in (DOMAIN positions) \cap (DOMAIN positions') :
          positions'[t].highestPrice >= positions[t].highestPrice]_vars

\* a position keeps a peak above its entry while the price is back below it
PeakKept ==
    \E t \in DOMAIN positions :
        /\ positions[t].highestPrice > positions[t].initialBuyPrice
        /\ positions[t].currentPrice < positions[t].highestPrice

\* C29: a buy is accepted on an existing position only as the step from DCA
\* level k to k + 1 with k < 3, and only when the price of the buy is at or
\* below zone k of DCA_ZONES, measured from initialBuyPrice.
DcaOnlyInZone ==
    [][\A t \in (DOMAIN positions) \cap (DOMAIN positions') :
          positions'[t].dcaLevel # positions[t].dcaLevel
             => /\ positions[t].dcaLevel < 3
                /\ positions'[t].dcaLevel = positions[t].dcaLevel + 1
                /\ (positions'[t].currentPrice - positions[t].initialBuyPrice) * FX
                      <= DCA_ZONES[positions[t].dcaLevel + 1]
                            * positions[t].initialBuyPrice]_vars

\* C30: initialBuyPrice is the price of the buy that created the position
\* and no later step changes it while the position exists; a step that
\* raises dcaLevel, an accepted DCA buy, leaves highestPrice as it was.
InitialBuyPriceFixed ==
    [][\A t \in DOMAIN positions' :
          IF t \in DOMAIN positions
          THEN /\ positions'[t].initialBuyPrice = positions[t].initialBuyPrice
               /\ positions'[t].dcaLevel # positions[t].dcaLevel
                     => positions'[t].highestPrice = positions[t].highestPrice
          ELSE /\ tradeCounter' > tradeCounter
               /\ \E k \in 1..(tradeCounter' - tradeCounter) :
                     /\ trades'[k].token = t
                     /\ trades'[k].action = "BUY"
                     /\ trades'[k].price = positions'[t].initialBuyPrice]_vars

\* a position whose peak rose above the entry and that was then averaged
\* down still has the entry price of its first buy
EntryKeptAfterDca ==
    \E t \in DOMAIN positions :
        /\ positions[t].dcaLevel \in 1..3
        /\ positions[t].highestPrice > positions[t].initialBuyPrice
        /\ positions[t].currentPrice < positions[t].initialBuyPrice
        /\ \E k \in 1..Len(trades) :
              /\ trades[k].token = t
              /\ trades[k].action = "BUY"
              /\ trades[k].price = positions[t].initialBuyPrice

(***************************************************************************)
(* Properties of letAIPickBest.                                            *)
(***************************************************************************)
\* C8: whatever the advisory answers, the signal letAIPickBest returns
\* carries the action generateRuleBasedSignal gave the returned token.
RuleActionKept ==
    arbResp.status # "pending" =>
        \E i \in 1..Len(arbSignals) :
            /\ arbSignals[i].token = arbResult.token
            /\ arbSignals[i].action = arbResult.action

\* the advisory named a candidate with another action than the rules gave
\* it, and the rule action was returned for that candidate
OverrideRejected ==
    /\ arbResp.status = "ok"
    /\ arbResp.json = "object"
    /\ arbResp.token \notin {Absent, NotAString}
    /\ arbResp.action \notin {Absent, NotAString}
    /\ ToUpperCase(arbResp.token) = arbResult.token
    /\ ToUpperCase(arbResp.action) # arbResult.action
    /\ arbResult.action \in {"BUY", "SELL"}

\* C9: whatever the advisory answers, the token of the signal letAIPickBest
\* returns is the token of a candidate whose rule action is not HOLD.
NonHoldChosen ==
    arbResp.status # "pending" =>
        \E i \in 1..Len(arbSignals) :
            /\ arbSignals[i].token = arbResult.token
            /\ arbSignals[i].action # "HOLD"

\* C10: when the request fails, the status is not OK, the body does not
\* parse to an object or the token it names is no candidate's, letAIPickBest
\* returns the candidate of the greatest strength (the first of them in feed
\* order), with its rule action and strength; it always returns a signal.
FallbackToStrongest ==
    LET named == IF arbResp.token \in {Absent, NotAString} THEN arbResp.token
                 ELSE ToUpperCase(arbResp.token)
        failed == \/ arbResp.status \in {"error", "notok"}
                  \/ arbResp.status = "ok" /\ arbResp.json # "object"
                  \/ /\ arbResp.status = "ok"
                     /\ \A i \in 1..Len(arbSignals) : arbSignals[i].token # named
    IN failed =>
          \E i \in 1..Len(arbSignals) :
              /\ \A j \in 1..Len(arbSignals) :
                    arbSignals[j].strength <= arbSignals[i].strength
              /\ \A j \in 1..(i - 1) :
                    arbSignals[j].strength < arbSignals[i].strength
              /\ arbResult.token = arbSignals[i].token
              /\ arbResult.action = arbSignals[i].action
              /\ arbResult.confidence = arbSignals[i].strength

\* the advisory named a symbol that is no candidate, and the strongest
\* candidate, which is not the first of the list, was returned
FellBackToStrongest ==
    /\ arbResp.status = "ok"
    /\ arbResp.json = "object"
    /\ arbResp.token = "DOGE"
    /\ arbResult.token # arbSignals[1].token
    /\ \A j \in 1..Len(arbSignals) : arbSignals[j].strength <= arbResult.confidence

(***************************************************************************)
(* Properties of analyzeAndDecide.                                         *)
(***************************************************************************)
\* C11: the confidence of every signal analyzeAndDecide returns for a symbol
\* is the strength the rules computed for that symbol; the confidence the
\* advisory states in its answer is never returned.
ConfidenceFromRules ==
    arbResult \notin {NoSignal, WarmupSignal} =>
        /\ \E i \in 1..Len(arbSignals) :
              /\ arbSignals[i].token = arbResult.token
              /\ arbSignals[i].strength = arbResult.confidence
        /\ arbResp.status = "ok" /\ arbResp.json = "object"
              => arbResult.confidence # arbResp.confidence

\* the advisory named a candidate with its rule action and a confidence of
\* its own, and the answer was returned with the rule strength
AdvisedConfidenceDropped ==
    /\ arbResp.status = "ok"
    /\ arbResp.json = "object"
    /\ arbResult.reason = "advisory"
    /\ arbResp.confidence = AdvisedConfidence
    /\ arbResult.confidence < AdvisedConfidence

\* C12: while the average history length, this call's prices included, is
\* below WARMUP_PERIOD, analyzeAndDecide returns HOLD with confidence 0 and
\* asks nobody.
WarmupHolds ==
    [][historyLen' # historyLen /\ historyLen' < WARMUP_PERIOD
          => /\ arbResult'.action = "HOLD"
             /\ arbResult'.confidence = 0
             /\ arbSignals' = <<>>
             /\ arbResp' = NoResponse]_vars

\* the last call of the warmup has returned: 19 prices a symbol, HOLD
LastWarmupCall ==
    /\ historyLen = WARMUP_PERIOD - 1
    /\ arbResult = WarmupSignal

(***************************************************************************)
(* Properties of buy and sell.                                             *)
(***************************************************************************)
\* C13: cashBalance >= 0 in every reachable state (NaN >= 0 is false).
CashNeverNegative == cashBalance # NaN /\ cashBalance >= 0

\* C14: right after an accepted buy, cashBalance is at least MIN_CASH_RESERVE
\* of the total equity.
ReserveKept ==
    [][tradeCounter' > tradeCounter /\ Head(trades').action = "BUY"
          => /\ cashBalance' # NaN
             /\ cashBalance' >= Mul(GetTotalEquity(Ledger'), MIN_CASH_RESERVE)]_vars

\* C15 as claimed: a buy followed by the sell of the same token at the same
\* price changes cash by 0 at fee rate 0 and by -(2 x feeRate x notional) at
\* fee rate 0.1%, notional being the amount the buy invested.
RoundTripCostsTwoFees ==
    roundTrip.phase = "sold" =>
        roundTrip.cashBalance - roundTrip.cashBefore
            = 0 - 2 * ExactFee(roundTrip.investmentAmount, roundTrip.feeRate)

\* C15 as amended: the round trip changes cash by 0 at fee rate 0 and by
\* -(2 x feeRate - feeRate^2) x notional at fee rate 0.1%, that is by
\* -0.001999 x notional: the fee of the sell is charged on the sale value
\* notional x (1 - feeRate), not on the notional.
RoundTripCostsBothFees ==
    roundTrip.phase = "sold" =>
        roundTrip.cashBefore - roundTrip.cashBalance
            = (roundTrip.investmentAmount \div ExactUnit)
                 * roundTrip.feeRate * (2000 - roundTrip.feeRate)

\* a round trip at the fee rate of the program has been made
RoundTripWithFee ==
    /\ roundTrip.phase = "sold"
    /\ roundTrip.feeRate = 1
    /\ roundTrip.cashBalance < roundTrip.cashBefore

\* a step that is one executeTrade call on the ledger alone
Calls == called'.calls = called.calls + 1

\* C16: an accepted first BUY of a token invests
\* min(availableCash x 0.15, totalEquity x 0.30) with availableCash = cash -
\* 0.20 x totalEquity, charges fee = invest x 0.001, credits (invest - fee) /
\* price tokens, takes invest from cash and creates the position with
\* initialBuyPrice = highestPrice = avgBuyPrice = price and dcaLevel 0; with
\* cash 10 and nothing held that is invest 1.2, fee 0.0012, cash 8.8, and
\* tokens worth 1.1988 at the price.
FirstBuySized ==
    [][Calls /\ called'.returned = "trade" /\ called'.action = "BUY" /\ ~called'.held
         => LET price == called'.price
                totalEquity == GetTotalEquity(Ledger)
                availableCash == cashBalance - (totalEquity * 2000) \div FX
                invest == Min((availableCash * 1500) \div FX, (totalEquity * 3000) \div FX)
                fee == (invest * 10) \div FX
                p == positions'[called'.token]
                trade == Head(trades')
            IN /\ cashBalance' = cashBalance - invest
               /\ trade.total = invest
               /\ trade.fee = fee
               /\ trade.amount = p.amount
               /\ p.amount = ((invest - fee) * FX) \div price
               /\ p.initialBuyPrice = price
               /\ p.highestPrice = price
               /\ p.avgBuyPrice = price
               /\ p.dcaLevel = 0
               /\ (cashBalance = 100000 /\ DOMAIN positions = {}
                     => /\ invest = 12000
                        /\ fee = 12
                        /\ cashBalance' = 88000
                        /\ p.amount * price = 11988 * FX)]_vars

\* the first call on a fresh ledger was a BUY and was accepted
FirstBuyFromTen ==
    /\ called.calls = 1
    /\ called.returned = "trade"
    /\ called.action = "BUY"
    /\ ~called.held
    /\ called.price = 1000
    /\ cashBalance = 88000

\* C19: after an accepted SELL of a token the position map holds no position
\* for it, the trade's amount is the whole amount of the position, and cash
\* has grown by amount x price less the fee on it; and no step leaves a
\* position open with a smaller amount than it had.
AllOrNothingExit ==
    [][/\ Calls /\ called'.returned = "trade" /\ called'.action = "SELL"
            => LET p == positions[called'.token]
                   saleValue == (p.amount * called'.price) \div FX
               IN /\ called'.token \notin DOMAIN positions'
                  /\ Head(trades').amount = p.amount
                  /\ cashBalance' - cashBalance = saleValue - (saleValue * 10) \div FX
       /\ \A t \in DOMAIN positions \cap DOMAIN positions' :
             positions'[t].amount = NaN \/ positions'[t].amount >= positions[t].amount]_vars

\* a laddered position has been sold
LadderSold ==
    /\ called.returned = "trade"
    /\ called.action = "SELL"
    /\ called.held
    /\ tradeCounter > 3
    /\ called.token \notin DOMAIN positions

\* C20: an executeTrade call that returns null leaves cashBalance, the position
\* map, the trade log, tradeCounter and the cooldown timestamps as they were.
RejectedCallChangesNothing ==
    [][Calls /\ called'.returned = "null" => Ledger' = Ledger]_vars

\* a BUY has been rejected for its size: past the cooldown and the reserve
\* test, on a token without a position
TradeTooSmall ==
    /\ called.returned = "null"
    /\ called.action = "BUY"
    /\ ~called.cooldown
    /\ ~called.held
    /\ called.availableCash >= MIN_TRADE_AMOUNT

\* what a DCA buy of the token at the price is to invest, from the ledger
\* before the call: the first entry's share of totalCost times 1, 1.5 or 2,
\* or 80% of the available cash where that is less
DcaWanted(token) ==
    ((positions[token].totalCost \div (positions[token].dcaLevel + 1))
        * <<10, 15, 20>>[positions[token].dcaLevel + 1]) \div 10

DcaAvailable == cashBalance - (GetTotalEquity(Ledger) * 2) \div 10

DcaInvestment(token) ==
    IF DcaWanted(token) > DcaAvailable THEN (DcaAvailable * 8) \div 10
    ELSE DcaWanted(token)

\* C31: a DCA buy at level k < 3 that passes the cooldown and the reserve
\* test invests (totalCost / (k + 1)) x DCA_MULTIPLIERS[k], or 0.8 x
\* availableCash if that is more than the available cash; it is rejected
\* when (amount x price + investment) / totalEquity > 0.60 or the investment
\* is below 0.05; when accepted, avgBuyPrice is totalCost / amount of the
\* enlarged position.
DcaBuySized ==
    [][\A t \in DOMAIN positions :
          /\ Calls
          /\ called'.token = t /\ called'.action = "BUY"
          /\ positions[t].dcaLevel < 3
          /\ ~called'.cooldown
          /\ DcaAvailable >= 500
          => LET inv == DcaInvestment(t)
                 value == (positions[t].amount * called'.price) \div FX
             IN IF (value + inv) * 10 > 6 * GetTotalEquity(Ledger) \/ inv < 500
                THEN called'.returned = "null" /\ Ledger' = Ledger
                ELSE /\ called'.returned = "trade"
                     /\ cashBalance' = cashBalance - inv
                     /\ trades'[1].total = inv
                     /\ positions'[t].totalCost
                           = positions[t].totalCost + (inv - (inv * 10) \div FX)
                     /\ positions'[t].amount > positions[t].amount
                     /\ positions'[t].avgBuyPrice
                           = (positions'[t].totalCost * FX) \div positions'[t].amount]_vars

\* a second DCA buy was accepted: the position stands at level 2 after a
\* call that returned its trade
SecondDcaAccepted ==
    /\ called.returned = "trade"
    /\ called.action = "BUY"
    /\ called.held
    /\ called.token \in DOMAIN positions
    /\ positions[called.token].dcaLevel = 2

\* C33: the trade log is newest-first and append-only.  Identifiers fall
\* strictly from head to tail; a call that books a trade raises tradeCounter
\* by exactly 1 and puts the trade T<tradeCounter> at the head; the trades
\* already in the log stay as they were, in place, and a call that returns
\* null leaves the log and the counter alone.
TradeLogAppendOnly ==
    /\ [](\A i, j \in 1..Len(trades) : i < j => trades[i].id > trades[j].id)
    /\ [][LET n == tradeCounter' - tradeCounter
          IN /\ n >= 0
             /\ Calls => n = IF called'.returned = "trade" THEN 1 ELSE 0
             /\ Len(trades') = Len(trades) + n
             /\ SubSeq(trades', n + 1, Len(trades')) = trades
             /\ \A k \in 1..n : trades'[k].id = tradeCounter' - k + 1]_vars

\* a sell was booked on top of a log that already held four buys
FifthTradeBooked ==
    /\ called.returned = "trade"
    /\ called.action = "SELL"
    /\ Len(trades) = 5
    /\ trades[1].id = 5 /\ trades[1].action = "SELL"
    /\ trades[5].id = 1

\* a stored position with amounts that are numbers above 0 and an average
\* price that is totalCost / amount, up to the rounding of the quotient
Balanced(p) ==
    /\ p.amount > 0
    /\ p.totalCost > 0
    /\ p.avgBuyPrice # NaN
    /\ p.totalCost * FX - p.avgBuyPrice * p.amount >= 0
    /\ p.totalCost * FX - p.avgBuyPrice * p.amount < p.amount

\* C38: every stored position has amount > 0, totalCost > 0 and
\* avgBuyPrice x amount = totalCost, and an accepted buy adds its investment
\* less its fee to totalCost.
PositionsBalanced ==
    /\ [](\A t \in DOMAIN positions : Balanced(positions[t]))
    /\ [][\A t \in DOMAIN positions' :
             /\ tradeCounter' = tradeCounter + 1
             /\ trades'[1].token = t /\ trades'[1].action = "BUY"
             => positions'[t].totalCost =
                   (IF t \in DOMAIN positions THEN positions[t].totalCost ELSE 0)
                   + (trades'[1].total - trades'[1].fee)]_vars

\* no position is repriced by the step, the token of a booked trade aside
PricesKept(token) ==
    \A u \in ((DOMAIN positions) \cap (DOMAIN positions')) \ {token} :
        positions'[u].currentPrice = positions[u].currentPrice

\* C39: an accepted buy or sell at the current price of its token lowers
\* total equity by the fee of the trade (an amount of tokens is a quotient
\* rounded down, which may take up to 2 units more), and a step without a
\* trade and without a price update leaves total equity as it was.
TradesCostTheirFee ==
    [][/\ (/\ tradeCounter' = tradeCounter + 1
           /\ PricesKept(trades'[1].token)
           /\ trades'[1].token \in DOMAIN positions
                 => positions[trades'[1].token].currentPrice = trades'[1].price)
          => /\ cashBalance' # NaN
             /\ GetTotalEquity(Ledger') - (GetTotalEquity(Ledger) - trades'[1].fee)
                   \in (0 - 2)..0
       /\ (/\ tradeCounter' = tradeCounter
           /\ cashBalance # NaN
           /\ DOMAIN positions' = DOMAIN positions
           /\ PricesKept("none"))
          => GetTotalEquity(Ledger') = GetTotalEquity(Ledger)]_vars

(***************************************************************************)
(* Properties of the server.                                               *)
(***************************************************************************)
\* a step in which the server answered a request or ran a stretch of
\* tradingLoop of the given kind
Serves(kind) == server' # server /\ server'.last.kind = kind

\* C21: a mode-switch request received while isTradingActive is true is
\* answered 400 and leaves tradingMode as it was; tradingMode changes only
\* while the bot is stopped.
ModeSwitchNeedsStop ==
    [][/\ Serves("mode") /\ isTradingActive
            => /\ server'.last.status = 400
               /\ server'.tradingMode = server.tradingMode
               /\ server'.liveExecutioner = server.liveExecutioner
       /\ server'.tradingMode # server.tradingMode
            => ~isTradingActive /\ ~isTradingActive']_vars

\* a switch to LIVE has been refused because the bot runs
SwitchRefusedWhileRunning ==
    /\ isTradingActive
    /\ server.last = Served("mode", 400, "LIVE", "none", FALSE)
    /\ server.privateKey
    /\ server.tradingMode = "PAPER"

\* C22: the executioner a tradingLoop invocation works with is that of the
\* mode in force when the invocation started, whatever requests arrived
\* while it was suspended.
TickKeepsItsMode ==
    server.last.kind = "finished" =>
        server.last.exec = IF server.last.mode = "LIVE" THEN "live" ELSE "paper"

\* C23: an invocation that starts while the bot is stopped suspends at no
\* fetch and leaves ledger and history alone; a stop request leaves the
\* suspended invocations and the ledger alone, so that they run to their end.
StopIsCooperative ==
    [][/\ Suspended' > Suspended => isTradingActive
       /\ Serves("skipped")
            => /\ ~isTradingActive
               /\ Ledger' = Ledger
               /\ <<server'.ticks, historyLen', monitored', peakSeen'>>
                     = <<server.ticks, historyLen, monitored, peakSeen>>
       /\ Serves("status")
            => /\ server'.ticks = server.ticks
               /\ Ledger' = Ledger]_vars

\* an invocation has traded after the bot was stopped
TradedAfterStop ==
    /\ ~isTradingActive
    /\ server.last.kind = "finished"
    /\ server.last.traded
    /\ server.tradingMode = "PAPER"

\* C24: when the construction of the live executioner fails, the request is
\* answered 500, tradingMode stays PAPER and liveExecutioner stays null, the
\* bot's status is untouched, and the invocations that follow work with the
\* paper executioner.
FailedSwitchKeepsPaper ==
    [][/\ Serves("mode") /\ server'.last.status = 500
            => /\ server'.tradingMode = "PAPER" /\ server.tradingMode = "PAPER"
               /\ server'.liveExecutioner = "null" /\ server.liveExecutioner = "null"
               /\ isTradingActive' = isTradingActive
               /\ server'.ticks = server.ticks
       /\ server.switchFailed /\ Serves("finished")
            => server'.last.exec = "paper"]_vars

\* after a failed switch the bot was started and an invocation traded on paper
PaperTradesAfterFailedSwitch ==
    /\ server.switchFailed
    /\ isTradingActive
    /\ server.last.kind = "finished"
    /\ server.last.exec = "paper"
    /\ server.last.traded

(***************************************************************************)
(* Properties of loadFromDisk.                                             *)
(***************************************************************************)
\* C25: when the store file is missing, unreadable or corrupt, the process
\* that loads it starts with the fresh default portfolio: cash
\* INITIAL_BALANCE, no positions, no trades, tradeCounter 0.
CorruptStoreLoadsFresh ==
    store.phase = "loaded" /\ (store.kind = "missing" \/ Corrupt(store))
        => /\ cashBalance = INITIAL_BALANCE
           /\ DOMAIN positions = {}
           /\ trades = <<>>
           /\ tradeCounter = 0

(***************************************************************************)
(* Properties of the indicators.                                           *)
(***************************************************************************)
\* C26: calculateRSI returns null for every history of fewer than period + 1
\* samples, the empty history included.
RsiNeedsPeriodPlusOne ==
    indicators.called = "calculateRSI"
        /\ Len(indicators.prices) < indicators.period + 1
        => indicators.rsi.isNull

\* calculateRSI was handed 14 samples with period 14 and returned null
RsiOneSampleShort ==
    /\ indicators.called = "calculateRSI"
    /\ indicators.period = 14
    /\ Len(indicators.prices) = 14
    /\ Finite(indicators.prices)
    /\ indicators.rsi.isNull

\* C27: calculateMACD returns null for every history of fewer than 34
\* samples, and a result {macd, signal, histogram} for every history of 34
\* finite prices or more.
MacdNeedsThirtyFour ==
    indicators.called = "calculateMACD"
        => /\ Len(indicators.prices) < 34 => indicators.macd.isNull
           /\ Len(indicators.prices) >= 34 /\ Finite(indicators.prices)
                 => /\ ~indicators.macd.isNull
                    /\ indicators.macd.macd # NaN
                    /\ indicators.macd.signal # NaN
                    /\ indicators.macd.histogram
                          = indicators.macd.macd - indicators.macd.signal

\* calculateMACD was handed exactly 34 rising prices and returned a result
\* whose macd line is above zero
MacdAtThirtyFour ==
    /\ indicators.called = "calculateMACD"
    /\ Len(indicators.prices) = 34
    /\ Finite(indicators.prices)
    /\ ~indicators.macd.isNull
    /\ indicators.macd.macd > 0

(***************************************************************************)
(* Properties of the advisory path.                                        *)
(***************************************************************************)
\* the stretch of a tick that resumes from the advisory fetch of letAIPickBest
AdvisoryStretch ==
    \E tk \in BagToSet(inflight) :
        tk.pc = "advisory" /\ inflight' = inflight (-) SetToBag({tk})

\* C35: the advisory path never buys on an existing position: the stretch
\* that executes the advisory's pick changes the dcaLevel of no position.
AdvisoryNeverDca ==
    [][AdvisoryStretch
          => \A t \in (DOMAIN positions) \cap (DOMAIN positions') :
                 /\ positions'[t].dcaLevel = positions[t].dcaLevel
                 /\ positions'[t].totalCost = positions[t].totalCost]_vars

(***************************************************************************)
(* Properties of generateRuleBasedSignal.                                  *)
(***************************************************************************)
\* the two scores as generateRuleBasedSignal holds them when it decides: both
\* 0 when the penalty gate returns, else the sell score for an open position
\* and the buy score without one
Scores ==
    LET open == ruled.held /\ ruled.amount > 0
        gate == NullPenalty(ruled.ind) >= 40
        data == [token |-> "SOL", price |-> ruled.price, change24h |-> ruled.change24h]
    IN [sell |-> IF ~gate /\ open
                 THEN SellStrength(ruled.ind, [pnlPercentage |-> ruled.pnlPercentage],
                                   ruled.newsSentiment)
                 ELSE 0,
        buy |-> IF ~gate /\ ~open
                THEN BuyStrength(data, ruled.ind, ruled.newsSentiment)
                ELSE 0]

\* C34: the signal is SELL exactly when the sell score is above the buy score
\* and at least 60, BUY exactly when the buy score is above the sell score
\* and at least 60, else HOLD with the larger score as strength; a SELL or
\* BUY has a strength in 60..100, a HOLD one below 60.
ActionNeedsSixty ==
    LET sig == ruled.signal
    IN sig.token # "none" =>
          /\ sig.action = "SELL" <=> Scores.sell > Scores.buy /\ Scores.sell >= 60
          /\ sig.action = "BUY" <=> Scores.buy > Scores.sell /\ Scores.buy >= 60
          /\ sig.action \in {"SELL", "BUY", "HOLD"}
          /\ sig.action = "HOLD" => /\ sig.strength = Max(Scores.sell, Scores.buy)
                                    /\ sig.strength < 60
          /\ sig.action # "HOLD" => sig.strength \in 60..100

\* a SELL whose score was above 100 came back with strength 100
SellCutAtHundred ==
    /\ ruled.signal.action = "SELL"
    /\ Scores.sell > 100
    /\ ruled.signal.strength = 100

\* C37: when the RSI handed to generateRuleBasedSignal is null or exactly 0,
\* as calculateRSI returns it for fourteen deltas with a loss and no gain, the
\* signal is HOLD with strength 0 whatever the P&L, crossover and sentiment.
RsiGateHolds ==
    /\ ~CalculateRSI(History("falling", 15), 14).isNull
    /\ RsiIsZero(CalculateRSI(History("falling", 15), 14))
    /\ ruled.signal.token # "none" /\ (ruled.ind.rsi.isNull \/ RsiIsZero(ruled.ind.rsi))
       => ruled.signal.action = "HOLD" /\ ruled.signal.strength = 0

\* an open position past the stop loss, a bearish crossover and bearish news,
\* with the RSI of a falling history: no SELL is proposed
FallingRsiHolds ==
    /\ ruled.ind.rsi = CalculateRSI(History("falling", 15), 14)
    /\ ~ruled.ind.sma20.isNull /\ ~ruled.ind.macd.isNull
    /\ ruled.held /\ ruled.amount > 0 /\ ruled.pnlPercentage <= STOP_LOSS
    /\ ruled.ind.macdCrossover = "BEARISH" /\ ruled.newsSentiment = "bearish"
    /\ ruled.signal.token = "SOL"
    /\ ruled.signal.action = "HOLD" /\ ruled.signal.strength = 0

\* the rule engine's half of the advisory path: BUY is proposed only without
\* an open position, SELL only with one
RulesRespectPosition ==
    LET open == ruled.held /\ ruled.amount > 0
    IN /\ ruled.signal.action = "BUY" => ~open
       /\ ruled.signal.action = "SELL" => open

(***************************************************************************)
(* Properties of calculateIndicators.                                      *)
(***************************************************************************)
\* the symbol whose indicators the step computes
Scanned(token) == technical'.priceHistory[token] # technical.priceHistory[token]

\* C36: the crossover of a computation is BULLISH exactly when the stored
\* histogram of the symbol is negative and the current one positive, BEARISH
\* exactly when the stored one is positive and the current one negative, NONE
\* otherwise, a stored histogram of 0 or none at all included; after the
\* computation the current histogram is the stored one of that symbol, and a
\* symbol has a stored histogram exactly from its first MACD on.
CrossoverFromStored ==
    /\ [](\A t \in Tokens :
             previousMacdHistogram[t].isNull
                <=> Len(technical.priceHistory[t]) < slowPeriod + signalPeriod - 1)
    /\ [][\A t \in Tokens :
             Scanned(t) =>
                LET prev == previousMacdHistogram[t]
                    macd == CalculateMACD(technical'.priceHistory[t])
                    bull == ~prev.isNull /\ ~macd.isNull
                            /\ Negative(prev.num) /\ Positive(macd.histogram)
                    bear == ~prev.isNull /\ ~macd.isNull
                            /\ Positive(prev.num) /\ Negative(macd.histogram)
                IN /\ technical'.token = t
                   /\ technical'.macdCrossover =
                         IF bull THEN "BULLISH" ELSE IF bear THEN "BEARISH" ELSE "NONE"
                   /\ ~macd.isNull
                         => previousMacdHistogram'[t] = Number(macd.histogram, EmaScale)
                   /\ \A u \in Tokens \ {t} :
                         previousMacdHistogram'[u] = previousMacdHistogram[u]]_vars

\* a computation found a stored histogram of exactly 0 and a positive current
\* one, and reported no crossover
ZeroThenPositive ==
    /\ technical.token # "none"
    /\ ~technical.prevHist.isNull /\ technical.prevHist.num = 0
    /\ ~technical.macd.isNull /\ Positive(technical.macd.histogram)
    /\ technical.macdCrossover = "NONE"
    /\ previousMacdHistogram[technical.token].num = technical.macd.histogram

=============================================================================
